---- MODULE Spec2Model ----
(***************************************************************************)
(* CryptoFantasy: the trading ledger (POST /api/trade), league creation,   *)
(* the price poller and the portfolio valuator, modelled at the level of   *)
(* the SQL statements the handlers await.                                  *)
(*                                                                         *)
(* Every statement of server.js goes through pool.query(sql): the pool     *)
(* runs it on whichever client is idle, and BEGIN / COMMIT / ROLLBACK and  *)
(* the row locks of SELECT ... FOR UPDATE belong to the client that ran    *)
(* them.  The model therefore keeps a transaction per pool client (tx) and *)
(* lets every statement pick its client.                                   *)
(*                                                                         *)
(* Numbers.  cash_usd, price_usd and cost_usd are numeric(.,8) columns and *)
(* qty is numeric(30,12).  The model keeps the two decimal grids but makes *)
(* them coarse: money is counted in units of 1/CashScale USD, a stored     *)
(* quantity in units of 1/QtyScale coin, and a quantity inside the handler *)
(* (a JavaScript number) in QtySub sub-steps of a stored unit.  Storing a  *)
(* value rounds it to the column's grid, half away from zero, as numeric   *)
(* does.  Binary floating-point error is not modelled.                     *)
(***************************************************************************)
EXTENDS Integers, Sequences, FiniteSets, TLC

\* ------------------------------------------------------------------ bounds
NumUsers == 1
NumGuests == 2
NumConns == 2
NumSlots == 2
MaxReqs == 3
MaxLeagues == 2
MaxTime == 1
MinuteTicks == 2
CashScale == 2
QtyScale == 2
QtySub == 4
DateTicks == 2
ScheduleCalls == 2

\* ------------------------------------------------------- program constants
StartCashUsd == 100000

\* the users who create leagues and trade in Spec, and the users who join leagues
Users == 1..NumUsers
Guests == (NumUsers + 1)..(NumUsers + NumGuests)
AllUsers == Users \cup Guests
Conns == 1..NumConns
Slots == 1..NumSlots

InitialCash == StartCashUsd * CashScale

\* COIN_WHITELIST, cut down to one coin
COIN_WHITELIST == {"bitcoin"}

\* request bodies: the symbol, side and quantity the client sends
RawSymbols == {" Bitcoin ", "pepe"}
RawSides == {"BUY", "sell", "HOLD"}
NaNQty == -1000
\* quantities in sub-steps: not a number, zero, a quarter and three quarters of a
\* stored unit, one stored unit, one coin
RawQtys == {NaNQty, 0, 1, QtySub - 1, QtySub, QtySub * QtyScale}

\* prices the feed delivers, in money units: one unit, 60000 USD
FeedPrices == {1, 60000 * CashScale}
JoinCodes == {"AAAAAA", "BBBBBB"}

\* POST /api/leagues bodies; NoValue is a field left out
NoValue == -1
RawNames == {"League", " "}
RawMemberCounts == {NoValue}
RawMatchupCounts == {NoValue}
RawFrequencies == {""}

\* ---------------------------------------------------------------- numbers
\* a / b rounded to the nearest integer, half away from zero (a >= 0, b > 0)
RoundDiv(a, b) == (2 * a + b) \div (2 * b)

\* a handler quantity (sub-steps) stored into a numeric(30,12) column
StoreQty(q) == RoundDiv(q, QtySub)

\* a stored quantity read back by Number(row.qty)
LoadQty(n) == n * QtySub

normalizeCoinId(raw) ==
  CASE raw = " Bitcoin " -> "bitcoin"
    [] OTHER -> raw

validateSymbol(raw) ==
  LET s == normalizeCoinId(raw)
  IN IF s = "" \/ s \notin COIN_WHITELIST THEN "" ELSE s

toUpperCase(side) ==
  CASE side = "sell" -> "SELL"
    [] OTHER -> side

ValidSide(sideU) == sideU = "BUY" \/ sideU = "SELL"

ValidQty(qty) == qty # NaNQty /\ qty > 0

\* cost = +(px * qty).toFixed(8)
TradeCost(px, qty) == RoundDiv(px * qty, QtySub * QtyScale)

\* faulty variants of the ledger arithmetic: a BUY that credits, a SELL that
\* debits, a SELL refused only when nothing is held
BuyCashCredits(cash, cost) == cash + cost
SellCashDebits(cash, cost) == cash - cost
SellRejectedOnlyEmpty(curQty, qty) == curQty <= 0

\* a faulty variant of BuyRejected: only an empty account is refused
BuyRejectedWhenBroke(cash, cost) == cash <= 0
BuyRejected(cash, cost) == cash < cost
BuyCash(cash, cost) == cash - cost
BuyQty(curQty, qty) == curQty + qty
SellRejected(curQty, qty) == curQty < qty
SellCash(cash, cost) == cash + cost
SellQty(curQty, qty) == curQty - qty
SellDeletes(newQty) == newQty <= 0

\* ------------------------------------------------------------------ state
VARIABLES
  leagues,          \* committed rows of table leagues
  portfolios,       \* committed rows of table portfolios
  holdings,         \* committed rows of table holdings
  trades,           \* committed rows of table trades, in commit order
  prices_latest,    \* rows of table prices_latest (symbol, price_usd)
  price_points_min, \* rows of table price_points_min
  nextLeagueId,     \* the bigserial of leagues.id
  tx,               \* per pool client: its open transaction
  session,          \* per user: req.session.currentLeagueId in the session store
  req,              \* per slot: the request being handled and where it stands
  poller,           \* the price poller's position in runTickOnce
  now,              \* the clock
  nreq,             \* requests accepted so far
  last,             \* history: the latest response
  log,              \* history: the responses to the trade requests that found a price
  applied,          \* history: <<request, change>> pairs that reached the committed tables
  val,              \* the valuation in progress and the results of the latest two
  sched,            \* the arguments and the result of computeLeagueSchedule
  score,            \* the call of scoreHeadToHeadMatchup in progress and its result
  stand,            \* the call of computeLeagueStandings in progress and its result
  fin               \* per handler: the POST /api/leagues/complete request in progress

vars == <<leagues, portfolios, holdings, trades, prices_latest, price_points_min,
          nextLeagueId, tx, session, req, poller, now, nreq, last, log, applied,
          val, sched, score, stand, fin>>

dbvars == <<leagues, portfolios, holdings, trades>>

\* ------------------------------------------------------------- the database
PKey(p) == <<p.user_id, p.league_id>>
HKey(h) == <<h.user_id, h.league_id, h.symbol>>

\* lock names: a portfolio row, a holding row, a join_code index entry
PLock(u, l) == <<"p", u, l, "">>
HLock(u, l, s) == <<"h", u, l, s>>
JLock(code) == <<"j", 0, 0, code>>

PutP(rows, new) == {p \in rows : \A q \in new : PKey(q) # PKey(p)} \cup new
PutH(rows, new) == {h \in rows : \A q \in new : HKey(q) # HKey(h)} \cup new
DelH(rows, keys) == {h \in rows : HKey(h) \notin keys}

\* a faulty variant of insertTrade: the new rows replace the table
insertTradeReplacing(rows, new) == new

\* queries.js 61-64: INSERT INTO trades
insertTrade(rows, new) == rows \o new

NoTx == [st |-> "idle", start |-> 0, lP |-> {}, pP |-> {}, hP |-> {}, hD |-> {},
         tP |-> <<>>, locks |-> {}, gh |-> {}]

\* what a statement run on client c sees: the committed rows and the client's own
\* uncommitted writes (READ COMMITTED)
VLeagues(c) == leagues \cup tx[c].lP
VPortfolios(c) == PutP(portfolios, tx[c].pP)
VHoldings(c) == PutH(DelH(holdings, tx[c].hD), tx[c].hP)
VTrades(c) == trades \o tx[c].tP

\* now() of a statement: the start of the client's transaction, if it has one
StmtNow(c) == IF tx[c].st = "active" THEN tx[c].start ELSE now

\* no other client's transaction holds lock k
Free(c, k) == \A d \in Conns \ {c} : k \notin tx[d].locks

\* a statement that reads only
ReadOnly == UNCHANGED <<dbvars, tx, applied>>

\* SELECT ... FOR UPDATE of the rows named by ks: waits for their locks and, inside
\* a transaction, keeps them
LockRows(c, ks) ==
  /\ \A k \in ks : Free(c, k)
  /\ tx' = IF tx[c].st = "active" THEN [tx EXCEPT ![c].locks = @ \cup ks] ELSE tx
  /\ UNCHANGED <<dbvars, applied>>

\* a writing statement on client c: league rows lA inserted, portfolio rows pA and
\* holding rows hA put, holding keys hDel deleted, trade rows tA appended; ks are
\* the rows it locks and g the history tags of the change
Write(c, lA, pA, hA, hDel, tA, ks, g) ==
  /\ \A k \in ks : Free(c, k)
  /\ IF tx[c].st = "active"
     THEN /\ tx' = [tx EXCEPT ![c] =
                    [@ EXCEPT !.lP = @ \cup lA,
                              !.pP = PutP(@, pA),
                              !.hP = PutH(DelH(@, hDel), hA),
                              !.hD = (@ \cup hDel) \ {HKey(h) : h \in hA},
                              !.tP = insertTrade(@, tA),
                              !.locks = @ \cup ks,
                              !.gh = @ \cup g]]
          /\ UNCHANGED <<dbvars, applied>>
     ELSE /\ leagues' = leagues \cup lA
          /\ portfolios' = PutP(portfolios, pA)
          /\ holdings' = PutH(DelH(holdings, hDel), hA)
          /\ trades' = insertTrade(trades, tA)
          /\ applied' = applied \cup g
          /\ UNCHANGED tx

\* a statement that raises an error: pool.query releases the client with the error,
\* and the pool closes a client released with an error, which ends its connection
\* (an open transaction is rolled back and its locks are freed); the next statement
\* handed to c runs on a new client
Raise(c) ==
  /\ tx' = [tx EXCEPT ![c] = NoTx]
  /\ UNCHANGED <<dbvars, applied>>

\* BEGIN on client c (a second BEGIN inside a transaction only warns)
Begin(c) ==
  /\ tx' = IF tx[c].st = "idle" THEN [tx EXCEPT ![c].st = "active", ![c].start = now]
           ELSE tx
  /\ UNCHANGED <<dbvars, applied>>

\* COMMIT on client c (outside a transaction it only warns)
Commit(c) ==
  IF tx[c].st = "active"
  THEN /\ leagues' = leagues \cup tx[c].lP
       /\ portfolios' = PutP(portfolios, tx[c].pP)
       /\ holdings' = PutH(DelH(holdings, tx[c].hD), tx[c].hP)
       /\ trades' = insertTrade(trades, tx[c].tP)
       /\ applied' = applied \cup tx[c].gh
       /\ tx' = [tx EXCEPT ![c] = NoTx]
  ELSE /\ tx' = [tx EXCEPT ![c] = NoTx]
       /\ UNCHANGED <<dbvars, applied>>

\* ROLLBACK on client c
Rollback(c) ==
  /\ tx' = [tx EXCEPT ![c] = NoTx]
  /\ UNCHANGED <<dbvars, applied>>

\* --------------------------------------------------------------- requests
NoReq == [kind |-> "none", pc |-> "idle", rid |-> 0, user |-> 0, symbol |-> "",
          side |-> "", quantity |-> 0, sessLeague |-> 0, sessDirty |-> FALSE,
          leagueId |-> 0, coinId |-> "", sideU |-> "", qty |-> 0, px |-> 0,
          cost |-> 0, cash |-> 0, curQty |-> 0, err |-> "", memberLimit |-> 0,
          matchupCount |-> 0, matchupFrequency |-> "", joinCode |-> "",
          priced |-> FALSE,
          pre |-> [portfolios |-> {}, holdings |-> {}, trades |-> <<>>]]

Set(r, rec) == req' = [req EXCEPT ![r] = rec]

\* history: the committed cash of a portfolio and quantity of a holding (NoValue:
\* no row)
CashIn(rows, u, l) ==
  IF \E p \in rows : PKey(p) = <<u, l>>
  THEN (CHOOSE p \in rows : PKey(p) = <<u, l>>).cash_usd
  ELSE NoValue

QtyIn(rows, u, l, s) ==
  IF \E h \in rows : HKey(h) = <<u, l, s>>
  THEN (CHOOSE h \in rows : HKey(h) = <<u, l, s>>).qty
  ELSE NoValue

\* history: a finished request, with the committed tables as they were when it read
\* its price (pre) and as they are when it answers (primed: the answering statement
\* is part of the request)
LogEntry(rq, status, err) ==
  [rid |-> rq.rid, kind |-> rq.kind, user |-> rq.user, leagueId |-> rq.leagueId,
   coinId |-> rq.coinId, sideU |-> rq.sideU, qty |-> rq.qty, px |-> rq.px,
   cost |-> rq.cost, status |-> status, err |-> err, priced |-> rq.priced,
   preCash |-> CashIn(rq.pre.portfolios, rq.user, rq.leagueId),
   preQty |-> QtyIn(rq.pre.holdings, rq.user, rq.leagueId, rq.coinId),
   postCash |-> CashIn(portfolios', rq.user, rq.leagueId),
   postQty |-> QtyIn(holdings', rq.user, rq.leagueId, rq.coinId),
   added |-> IF Len(trades') >= Len(rq.pre.trades)
             THEN SubSeq(trades', Len(rq.pre.trades) + 1, Len(trades'))
             ELSE <<>>,
   frame |-> /\ {p \in portfolios' : PKey(p) # <<rq.user, rq.leagueId>>}
                = {p \in rq.pre.portfolios : PKey(p) # <<rq.user, rq.leagueId>>}
             /\ {h \in holdings' : HKey(h) # <<rq.user, rq.leagueId, rq.coinId>>}
                = {h \in rq.pre.holdings : HKey(h) # <<rq.user, rq.leagueId, rq.coinId>>}
             /\ Len(trades') >= Len(rq.pre.trades)
             /\ SubSeq(trades', 1, Len(rq.pre.trades)) = rq.pre.trades]

LogEntry0 ==
  [rid |-> 0, kind |-> "none", user |-> 0, leagueId |-> 0, coinId |-> "", sideU |-> "",
   qty |-> 0, px |-> 0, cost |-> 0, status |-> 0, err |-> "", priced |-> FALSE,
   preCash |-> NoValue,
   preQty |-> NoValue, postCash |-> NoValue, postQty |-> NoValue, added |-> <<>>,
   frame |-> TRUE]

Record(rq, status, err) ==
  /\ last' = LogEntry(rq, status, err)
  /\ log' = IF rq.priced THEN Append(log, LogEntry(rq, status, err)) ELSE log

\* the response is sent: express-session stores the session if the handler changed
\* it, and the slot is free again
Respond(r, status, err) ==
  /\ Record(req[r], status, err)
  /\ session' = IF req[r].sessDirty
                THEN [session EXCEPT ![req[r].user] = req[r].sessLeague]
                ELSE session
  /\ req' = [req EXCEPT ![r] = NoReq]

\* the handler goes on to its next statement
Goto(r, rec) ==
  /\ Set(r, rec)
  /\ UNCHANGED <<last, log, session>>

Others == <<prices_latest, price_points_min, poller, now, val, sched, score, stand, fin>>

\* the league of the earliest row (ORDER BY created_at ASC LIMIT 1; rows of the same
\* instant come in either order)
Earliest(rows) == {x \in rows : \A y \in rows : x.created_at <= y.created_at}

\* ----------------------------------------------------------- POST /api/trade
\* server.js 1779-1788: the request arrives; getOrCreateCurrentLeagueId returns the
\* session's league at once if it has one
StartTradeBy(r, users, symbols, sides, qtys) ==
  /\ req[r].pc = "idle"
  /\ nreq < MaxReqs
  /\ \E u \in users, sym \in symbols, sd \in sides, q \in qtys :
       Set(r, [NoReq EXCEPT !.kind = "trade", !.rid = nreq + 1, !.user = u,
                            !.symbol = sym, !.side = sd, !.quantity = q,
                            !.sideU = toUpperCase(sd), !.qty = q,
                            !.sessLeague = session[u], !.leagueId = session[u],
                            !.pre = [portfolios |-> portfolios, holdings |-> holdings,
                                     trades |-> trades],
                            !.pc = IF session[u] # 0 THEN "ensurePortfolio"
                                   ELSE "getFirstPortfolioLeague"])
  /\ nreq' = nreq + 1
  /\ UNCHANGED <<dbvars, tx, applied, last, log, session, nextLeagueId, Others>>

StartTradeWith(r, symbols, sides, qtys) == StartTradeBy(r, Users, symbols, sides, qtys)

StartTrade(r) == StartTradeWith(r, RawSymbols, RawSides, RawQtys)

\* getOrCreateCurrentLeagueId, server.js 216-224
TradeGetFirstPortfolioLeague(r, c) ==
  /\ req[r].kind = "trade" /\ req[r].pc = "getFirstPortfolioLeague"
  /\ LET rows == {p \in VPortfolios(c) : p.user_id = req[r].user}
     IN IF rows # {}
        THEN \E p \in Earliest(rows) :
               Goto(r, [req[r] EXCEPT !.leagueId = p.league_id,
                                      !.sessLeague = p.league_id, !.sessDirty = TRUE,
                                      !.pc = "ensurePortfolio"])
        ELSE Goto(r, [req[r] EXCEPT !.pc = "getUserFirstLeague"])
  /\ ReadOnly
  /\ UNCHANGED <<nreq, nextLeagueId, Others>>

\* ensureSoloLeagueForUser, server.js 179-184
TradeGetUserFirstLeague(r, c) ==
  /\ req[r].kind = "trade" /\ req[r].pc = "getUserFirstLeague"
  /\ LET rows == {l \in VLeagues(c) : l.owner_user_id = req[r].user}
     IN IF rows # {}
        THEN \E l \in Earliest(rows) :
               Goto(r, [req[r] EXCEPT !.leagueId = l.id, !.pc = "soloEnsurePortfolio"])
        ELSE Goto(r, [req[r] EXCEPT !.pc = "createSoloLeague"])
  /\ ReadOnly
  /\ UNCHANGED <<nreq, nextLeagueId, Others>>

\* a faulty variant of InsertPortfolio: the row is written anew even if one exists
InsertPortfolioResetting(c, u, l, g) ==
  Write(c, {}, {[user_id |-> u, league_id |-> l, cash_usd |-> InitialCash,
                 created_at |-> StmtNow(c)]}, {}, {}, <<>>, {PLock(u, l)}, g)

\* INSERT INTO portfolios (user_id, league_id) ... ON CONFLICT DO NOTHING on client c:
\* the row is created with the column default 100000 unless one exists
InsertPortfolio(c, u, l, g) ==
  IF \E p \in VPortfolios(c) : PKey(p) = <<u, l>>
  THEN /\ Free(c, PLock(u, l))
       /\ ReadOnly
  ELSE Write(c, {}, {[user_id |-> u, league_id |-> l, cash_usd |-> InitialCash,
                      created_at |-> StmtNow(c)]}, {}, {}, <<>>, {PLock(u, l)}, g)

\* the league a portfolio row refers to exists for client c (foreign key)
LeagueExists(c, l) == \E x \in VLeagues(c) : x.id = l

\* ensureSoloLeagueForUser, server.js 180-183: the user owns a league
TradeSoloEnsurePortfolio(r, c) ==
  /\ req[r].kind = "trade" /\ req[r].pc = "soloEnsurePortfolio"
  /\ IF LeagueExists(c, req[r].leagueId)
     THEN /\ InsertPortfolio(c, req[r].user, req[r].leagueId,
                             {<<req[r].rid, "portfolio">>})
          /\ Goto(r, [req[r] EXCEPT !.sessLeague = req[r].leagueId, !.sessDirty = TRUE,
                                    !.pc = "ensurePortfolio"])
     ELSE /\ Raise(c)
          /\ Goto(r, [req[r] EXCEPT !.pc = "catch"])
  /\ UNCHANGED <<nreq, nextLeagueId, Others>>

\* ensureSoloLeagueForUser, server.js 188-203: createSoloLeague has three
\* placeholders and is given four values, which the server refuses with a protocol
\* error (not 23505), so the loop rethrows
TradeCreateSoloLeague(r, c) ==
  /\ req[r].kind = "trade" /\ req[r].pc = "createSoloLeague"
  /\ Raise(c)
  /\ \E code \in JoinCodes :
       Goto(r, [req[r] EXCEPT !.joinCode = code, !.pc = "catch"])
  /\ UNCHANGED <<nreq, nextLeagueId, Others>>

\* the three checks of server.js 1793-1804, in their order
ValidationError(symbol, sideU, qty) ==
  IF validateSymbol(symbol) = "" THEN "coin not allowed (not in global whitelist)"
  ELSE IF ~ValidSide(sideU) THEN "side must be BUY or SELL"
  ELSE IF ~ValidQty(qty) THEN "quantity must be > 0"
  ELSE ""

\* server.js 1789-1804: ensurePortfolio, then the validation of the body
TradeEnsurePortfolio(r, c) ==
  /\ req[r].kind = "trade" /\ req[r].pc = "ensurePortfolio"
  /\ IF LeagueExists(c, req[r].leagueId)
     THEN /\ InsertPortfolio(c, req[r].user, req[r].leagueId,
                             {<<req[r].rid, "portfolio">>})
          /\ LET e == ValidationError(req[r].symbol, req[r].sideU, req[r].qty)
             IN IF e # ""
                THEN Respond(r, 400, e)
                ELSE Goto(r, [req[r] EXCEPT !.coinId = validateSymbol(req[r].symbol),
                                            !.pc = "getCurrentPrice"])
     ELSE /\ Raise(c)
          /\ Goto(r, [req[r] EXCEPT !.pc = "catch"])
  /\ UNCHANGED <<nreq, nextLeagueId, Others>>

\* a faulty variant of getCurrentPrice: a price of one step when no row exists
getCurrentPriceOrDefault(coinId) ==
  IF \E p \in prices_latest : p.symbol = normalizeCoinId(coinId)
  THEN {p \in prices_latest : p.symbol = normalizeCoinId(coinId)}
  ELSE {[symbol |-> normalizeCoinId(coinId), price_usd |-> 1]}

\* server.js 231-235: the rows getLatestPrice returns
getCurrentPrice(coinId) == {p \in prices_latest : p.symbol = normalizeCoinId(coinId)}

\* server.js 1806-1811: the latest price and the cost
TradeGetCurrentPrice(r, c) ==
  /\ req[r].kind = "trade" /\ req[r].pc = "getCurrentPrice"
  /\ ReadOnly
  /\ LET rows == getCurrentPrice(req[r].coinId)
     IN IF rows = {}
        THEN Respond(r, 400, "no current price; try later")
        ELSE \E p \in rows :
               Goto(r, [req[r] EXCEPT !.px = p.price_usd,
                                      !.cost = TradeCost(p.price_usd, req[r].qty),
                                      !.priced = TRUE,
                                      !.pre = [portfolios |-> portfolios,
                                               holdings |-> holdings,
                                               trades |-> trades],
                                      !.pc = "BEGIN"])
  /\ UNCHANGED <<nreq, nextLeagueId, Others>>

\* server.js 1813
TradeBegin(r, c) ==
  /\ req[r].kind = "trade" /\ req[r].pc = "BEGIN"
  /\ Begin(c)
  /\ Goto(r, [req[r] EXCEPT !.pc = "getCashForUpdate"])
  /\ UNCHANGED <<nreq, nextLeagueId, Others>>

\* server.js 1816-1820
TradeGetCashForUpdate(r, c) ==
  /\ req[r].kind = "trade" /\ req[r].pc = "getCashForUpdate"
  /\ LET rows == {p \in VPortfolios(c) : PKey(p) = <<req[r].user, req[r].leagueId>>}
     IN IF rows = {}
        THEN /\ ReadOnly
             /\ Goto(r, [req[r] EXCEPT !.cash = 0, !.pc = "getHoldingForUpdate"])
        ELSE /\ LockRows(c, {PLock(req[r].user, req[r].leagueId)})
             /\ \E p \in rows :
                  Goto(r, [req[r] EXCEPT !.cash = p.cash_usd,
                                         !.pc = "getHoldingForUpdate"])
  /\ UNCHANGED <<nreq, nextLeagueId, Others>>

\* the statement after the two reads: the sufficiency checks of server.js 1830, 1856
AfterReads(sideU, cash, cost, curQty, qty) ==
  IF sideU = "BUY"
  THEN IF BuyRejected(cash, cost) THEN "ROLLBACK" ELSE "updateCash"
  ELSE IF SellRejected(curQty, qty) THEN "ROLLBACK" ELSE "updateCash"

RejectReason(sideU) ==
  IF sideU = "BUY" THEN "insufficient cash" ELSE "insufficient quantity"

\* server.js 1822-1833, 1856-1859
TradeGetHoldingForUpdate(r, c) ==
  /\ req[r].kind = "trade" /\ req[r].pc = "getHoldingForUpdate"
  /\ LET k == <<req[r].user, req[r].leagueId, req[r].coinId>>
         rows == {h \in VHoldings(c) : HKey(h) = k}
         next(cur) == [req[r] EXCEPT !.curQty = cur,
                         !.pc = AfterReads(req[r].sideU, req[r].cash, req[r].cost,
                                           cur, req[r].qty)]
     IN IF rows = {}
        THEN /\ ReadOnly
             /\ Goto(r, next(0))
        ELSE /\ LockRows(c, {HLock(k[1], k[2], k[3])})
             /\ \E h \in rows : Goto(r, next(LoadQty(h.qty)))
  /\ UNCHANGED <<nreq, nextLeagueId, Others>>

\* server.js 1831-1832, 1857-1858
TradeReject(r, c) ==
  /\ req[r].kind = "trade" /\ req[r].pc = "ROLLBACK"
  /\ Rollback(c)
  /\ Respond(r, 400, RejectReason(req[r].sideU))
  /\ UNCHANGED <<nreq, nextLeagueId, Others>>

NewCash(sideU, cash, cost) ==
  IF sideU = "BUY" THEN BuyCash(cash, cost) ELSE SellCash(cash, cost)

\* server.js 1834-1838, 1860-1864: UPDATE portfolios SET cash_usd = $3
TradeUpdateCash(r, c) ==
  /\ req[r].kind = "trade" /\ req[r].pc = "updateCash"
  /\ LET rows == {p \in VPortfolios(c) : PKey(p) = <<req[r].user, req[r].leagueId>>}
         new == {[p EXCEPT !.cash_usd = NewCash(req[r].sideU, req[r].cash, req[r].cost)]
                   : p \in rows}
     IN IF rows = {}
        THEN ReadOnly
        ELSE Write(c, {}, new, {}, {}, <<>>, {PLock(req[r].user, req[r].leagueId)},
                   {<<req[r].rid, "cash">>})
  /\ Goto(r, [req[r] EXCEPT !.pc = "updateHolding"])
  /\ UNCHANGED <<nreq, nextLeagueId, Others>>

\* server.js 1839-1844, 1865-1879: upsertHolding, or deleteHolding when a SELL
\* leaves nothing
TradeUpdateHolding(r, c) ==
  /\ req[r].kind = "trade" /\ req[r].pc = "updateHolding"
  /\ LET k == <<req[r].user, req[r].leagueId, req[r].coinId>>
         newQty == IF req[r].sideU = "BUY" THEN BuyQty(req[r].curQty, req[r].qty)
                   ELSE SellQty(req[r].curQty, req[r].qty)
         row == [user_id |-> k[1], league_id |-> k[2], symbol |-> k[3],
                 qty |-> StoreQty(newQty)]
     IN IF req[r].sideU = "SELL" /\ SellDeletes(newQty)
        THEN Write(c, {}, {}, {}, {k}, <<>>, {HLock(k[1], k[2], k[3])},
                   {<<req[r].rid, "holding">>})
        ELSE Write(c, {}, {}, {row}, {}, <<>>, {HLock(k[1], k[2], k[3])},
                   {<<req[r].rid, "holding">>})
  /\ Goto(r, [req[r] EXCEPT !.pc = "insertTrade"])
  /\ UNCHANGED <<nreq, nextLeagueId, Others>>

\* the row insertTrade writes, as the columns of trades store it
TradeRow(c, rq) ==
  [user_id |-> rq.user, league_id |-> rq.leagueId, symbol |-> rq.coinId,
   side |-> rq.sideU, qty |-> StoreQty(rq.qty), price_usd |-> rq.px,
   cost_usd |-> rq.cost, created_at |-> StmtNow(c)]

\* portfolio.sql 39-40: check (qty > 0), check (price_usd > 0)
TradeRowAccepted(row) == row.qty > 0 /\ row.price_usd > 0

\* server.js 1845-1853, 1880-1888
TradeInsertTrade(r, c) ==
  /\ req[r].kind = "trade" /\ req[r].pc = "insertTrade"
  /\ IF TradeRowAccepted(TradeRow(c, req[r]))
     THEN /\ Write(c, {}, {}, {}, {}, <<TradeRow(c, req[r])>>, {},
                   {<<req[r].rid, "trade">>})
          /\ Goto(r, [req[r] EXCEPT !.pc = "COMMIT"])
     ELSE /\ Raise(c)
          /\ Goto(r, [req[r] EXCEPT !.pc = "catch"])
  /\ UNCHANGED <<nreq, nextLeagueId, Others>>

\* server.js 1891
TradeCommit(r, c) ==
  /\ req[r].kind = "trade" /\ req[r].pc = "COMMIT"
  /\ Commit(c)
  /\ Goto(r, [req[r] EXCEPT !.pc = "getHoldings"])
  /\ UNCHANGED <<nreq, nextLeagueId, Others>>

\* server.js 1894-1897: the holdings of the response
TradeGetHoldings(r, c) ==
  /\ req[r].kind = "trade" /\ req[r].pc = "getHoldings"
  /\ ReadOnly
  /\ Goto(r, [req[r] EXCEPT !.pc = "getCash"])
  /\ UNCHANGED <<nreq, nextLeagueId, Others>>

\* server.js 1898-1916: the cash of the response, and the response
TradeGetCash(r, c) ==
  /\ req[r].kind = "trade" /\ req[r].pc = "getCash"
  /\ ReadOnly
  /\ Respond(r, 200, "")
  /\ UNCHANGED <<nreq, nextLeagueId, Others>>

\* server.js 1917-1923
TradeCatch(r, c) ==
  /\ req[r].kind = "trade" /\ req[r].pc = "catch"
  /\ Rollback(c)
  /\ Respond(r, 500, "internal error")
  /\ UNCHANGED <<nreq, nextLeagueId, Others>>

\* ---------------------------------------------------------- POST /api/leagues
\* server.js 892-895
trim(name) == IF name = " " THEN "" ELSE name

\* server.js 897-910: NoValue stands for no member limit
MemberLimitOf(memberCount) == memberCount

\* server.js 898-909, 913-925
CreateValidationError(name, memberCount, matchupCount) ==
  IF trim(name) = "" THEN "League name is required"
  ELSE IF memberCount # NoValue /\ (memberCount < 2 \/ memberCount > 32)
       THEN "Member count must be a reasonable integer"
  ELSE IF matchupCount # NoValue /\ (matchupCount <= 0 \/ matchupCount > 1000)
       THEN "Matchup count must be a positive integer"
  ELSE ""

\* server.js 927-931
FrequencyOf(raw) == IF raw = "DAILY" \/ raw = "WEEKLY" THEN raw ELSE "WEEKLY"

\* server.js 885-940: the request arrives and its body is validated
StartCreateLeagueWith(r, memberCounts) ==
  /\ req[r].pc = "idle"
  /\ nreq < MaxReqs
  /\ UNCHANGED <<dbvars, tx, applied, session, nextLeagueId, Others>>
  /\ \E u \in Users, name \in RawNames, mc \in memberCounts,
        k \in RawMatchupCounts, f \in RawFrequencies :
       LET e == CreateValidationError(name, mc, k)
           rq == [NoReq EXCEPT !.kind = "createLeague", !.rid = nreq + 1, !.user = u,
                               !.sessLeague = session[u], !.pc = "insertLeague",
                               !.memberLimit = MemberLimitOf(mc), !.matchupCount = k,
                               !.matchupFrequency = FrequencyOf(f)]
       IN IF e # ""
          THEN /\ Record(rq, 400, e)
               /\ UNCHANGED req
          ELSE /\ Set(r, rq)
               /\ UNCHANGED <<last, log>>
  /\ nreq' = nreq + 1

StartCreateLeague(r) == StartCreateLeagueWith(r, RawMemberCounts)

LeagueRow(c, rq, id, code) ==
  [id |-> id, owner_user_id |-> rq.user, join_code |-> code,
   member_limit |-> rq.memberLimit, matchupCount |-> rq.matchupCount,
   matchupFrequency |-> rq.matchupFrequency, created_at |-> StmtNow(c),
   status |-> "ACTIVE", winner_user_id |-> 0, completed_at |-> 0]

\* server.js 943-966: one turn of the loop, with the join code generateJoinCode drew
CreateInsertLeague(r, c) ==
  /\ req[r].kind = "createLeague" /\ req[r].pc = "insertLeague"
  /\ nextLeagueId <= MaxLeagues
  /\ nextLeagueId' = nextLeagueId + 1
  /\ \E code \in JoinCodes :
       IF \E l \in VLeagues(c) : l.join_code = code
       THEN \* 23505: continue
            /\ Free(c, JLock(code))
            /\ Raise(c)
            /\ UNCHANGED <<req, last, log, session>>
       ELSE /\ Write(c, {LeagueRow(c, req[r], nextLeagueId, code)}, {}, {}, {}, <<>>,
                     {JLock(code)}, {<<req[r].rid, "league">>})
            /\ Goto(r, [req[r] EXCEPT !.leagueId = nextLeagueId, !.joinCode = code,
                                      !.pc = "createEnsurePortfolio"])
  /\ UNCHANGED <<nreq, Others>>

\* server.js 968-987: the owner's portfolio, the session's league and the response
CreateEnsurePortfolio(r, c) ==
  /\ req[r].kind = "createLeague" /\ req[r].pc = "createEnsurePortfolio"
  /\ IF LeagueExists(c, req[r].leagueId)
     THEN /\ InsertPortfolio(c, req[r].user, req[r].leagueId,
                             {<<req[r].rid, "portfolio">>})
          /\ session' = [session EXCEPT ![req[r].user] = req[r].leagueId]
          /\ Record(req[r], 200, "")
          /\ req' = [req EXCEPT ![r] = NoReq]
     ELSE /\ Raise(c)
          /\ Respond(r, 500, "Failed to create league")
  /\ UNCHANGED <<nreq, nextLeagueId, Others>>

\* ----------------------------------------------------- POST /api/leagues/join
\* the codes a client sends; "" is a body without a code
RawCodes == {" aaaaaa", "BBBBBB", ""}

\* server.js 132: (rawCode || "").trim().toUpperCase()
NormCode(rawCode) ==
  CASE rawCode = " aaaaaa" -> "AAAAAA"
    [] OTHER -> rawCode

\* server.js 998-1005, 125-137: the request of one of users arrives, with one of
\* rawCodes, as one of the first max requests
StartJoinBy(r, users, rawCodes, max) ==
  /\ req[r].pc = "idle"
  /\ nreq < max
  /\ UNCHANGED <<dbvars, tx, applied, session, nextLeagueId, Others>>
  /\ \E u \in users, rawCode \in rawCodes :
       LET rq == [NoReq EXCEPT !.kind = "join", !.rid = nreq + 1, !.user = u,
                               !.sessLeague = session[u],
                               !.joinCode = NormCode(rawCode),
                               !.pc = "getLeagueByJoinCode"]
       IN IF NormCode(rawCode) = ""
          THEN /\ Record(rq, 400, "League code is required")
               /\ UNCHANGED req
          ELSE /\ Set(r, rq)
               /\ UNCHANGED <<last, log>>
  /\ nreq' = nreq + 1

StartJoin(r) == StartJoinBy(r, AllUsers, RawCodes, MaxReqs)

\* server.js 139-154: the league of the code.  getLeagueByJoinCode selects id, name
\* and member_limit only, so league.status is undefined and the test of line 148
\* never holds
JoinGetLeagueByJoinCode(r, c) ==
  /\ req[r].kind = "join" /\ req[r].pc = "getLeagueByJoinCode"
  /\ ReadOnly
  /\ LET rows == {l \in VLeagues(c) : l.join_code = req[r].joinCode}
     IN IF rows = {}
        THEN Respond(r, 404, "League not found")
        ELSE \E l \in rows :
               Goto(r, [req[r] EXCEPT !.leagueId = l.id,
                                      !.memberLimit = l.member_limit,
                                      !.pc = IF l.member_limit # NoValue
                                             THEN "countLeagueMembers"
                                             ELSE "joinEnsurePortfolio"])
  /\ UNCHANGED <<nreq, nextLeagueId, Others>>

\* queries.js 206-210: SELECT COUNT(*) FROM portfolios WHERE league_id = $1
countLeagueMembers(rows, leagueId) == Cardinality({p \in rows : p.league_id = leagueId})

\* server.js 155-164
JoinCountLeagueMembers(r, c) ==
  /\ req[r].kind = "join" /\ req[r].pc = "countLeagueMembers"
  /\ ReadOnly
  /\ IF countLeagueMembers(VPortfolios(c), req[r].leagueId) >= req[r].memberLimit
     THEN Respond(r, 409, "League is full")
     ELSE Goto(r, [req[r] EXCEPT !.pc = "joinEnsurePortfolio"])
  /\ UNCHANGED <<nreq, nextLeagueId, Others>>

\* server.js 166-168, 1006-1014: the member's portfolio, the session's league and
\* the response
JoinEnsurePortfolio(r, c) ==
  /\ req[r].kind = "join" /\ req[r].pc = "joinEnsurePortfolio"
  /\ IF LeagueExists(c, req[r].leagueId)
     THEN /\ InsertPortfolio(c, req[r].user, req[r].leagueId,
                             {<<req[r].rid, "portfolio">>})
          /\ session' = [session EXCEPT ![req[r].user] = req[r].leagueId]
          /\ Record(req[r], 200, "")
          /\ req' = [req EXCEPT ![r] = NoReq]
     ELSE /\ Raise(c)
          /\ Respond(r, 500, "Failed to join league")
  /\ UNCHANGED <<nreq, nextLeagueId, Others>>

\* ------------------------------------------------------------ the price poller
\* date_trunc('minute', now())
TruncMinute(t) == (t \div MinuteTicks) * MinuteTicks

NoPoll == [pc |-> "latest", symbol |-> "", price |-> 0]

\* fetch_prices.js 125-141: the feed's price of a coin is upserted into
\* prices_latest; a coin the feed left out is skipped
PollLatest ==
  /\ poller.pc = "latest"
  /\ \E s \in COIN_WHITELIST :
       \/ /\ UNCHANGED <<prices_latest, poller>>
       \/ \E p \in FeedPrices :
            /\ prices_latest' = {x \in prices_latest : x.symbol # s}
                                  \cup {[symbol |-> s, price_usd |-> p]}
            /\ poller' = [pc |-> "minute", symbol |-> s, price |-> p]
  /\ UNCHANGED <<dbvars, tx, applied, session, req, last, log, nreq, nextLeagueId, val,
                 sched, score, stand, fin,
                 price_points_min, now>>

\* the primary key of price_points_min: a row of the asset's minute bucket exists
BucketTaken(rows, symbol, ts_min) ==
  \E x \in rows : x.symbol = symbol /\ x.ts_min = ts_min

\* a faulty variant of PollMinute: on conflict do update set price_usd
PollMinuteUpdating ==
  /\ poller.pc = "minute"
  /\ price_points_min' =
       {x \in price_points_min :
          ~(x.symbol = poller.symbol /\ x.ts_min = TruncMinute(now))}
         \cup {[symbol |-> poller.symbol, ts_min |-> TruncMinute(now),
                price_usd |-> poller.price]}
  /\ poller' = NoPoll
  /\ UNCHANGED <<dbvars, tx, applied, session, req, last, log, nreq, nextLeagueId, val,
                 sched, score, stand, fin,
                 prices_latest, now>>

\* fetch_prices.js 143-149: insert into price_points_min ... on conflict do nothing
PollMinute ==
  /\ poller.pc = "minute"
  /\ price_points_min' =
       IF BucketTaken(price_points_min, poller.symbol, TruncMinute(now))
       THEN price_points_min
       ELSE price_points_min \cup {[symbol |-> poller.symbol, ts_min |-> TruncMinute(now),
                                    price_usd |-> poller.price]}
  /\ poller' = NoPoll
  /\ UNCHANGED <<dbvars, tx, applied, session, req, last, log, nreq, nextLeagueId, val,
                 sched, score, stand, fin,
                 prices_latest, now>>

\* time passes, up to max
TickTo(max) ==
  /\ now < max
  /\ now' = now + 1
  /\ UNCHANGED <<dbvars, tx, applied, session, req, last, log, nreq, nextLeagueId, val,
                 sched, score, stand, fin,
                 prices_latest, price_points_min, poller>>

Tick == TickTo(MaxTime)

\* ------------------------------------------------------------ the schedule
\* a timestamptz column read by the driver into a JavaScript Date: the microseconds
\* are cut off, and new Date() reads the clock in whole milliseconds.  Times are in
\* units of 1 / DateTicks millisecond
toDate(t) == (t \div DateTicks) * DateTicks

\* the row of leagues the handlers select; the settings column is kept as the two
\* fields POST /api/leagues stores in it
NoLeague == [id |-> 0, owner_user_id |-> 0, join_code |-> "", member_limit |-> NoValue,
             matchupCount |-> NoValue, matchupFrequency |-> "WEEKLY", created_at |-> 0,
             status |-> "ACTIVE", winner_user_id |-> 0, completed_at |-> 0]

\* computeLeagueSchedule has not been called; FAST_SCHEDULE is the flag of the
\* process environment, n the number of calls, at their times, schedule the result
\* of the latest call and prev that of the call before it
NoSched == [league |-> NoLeague, members |-> <<>>, FAST_SCHEDULE |-> FALSE,
            called |-> FALSE, n |-> 0, at |-> <<>>, baseRoundMatchups |-> <<>>,
            schedule |-> <<>>, prev |-> <<>>]

\* the id of the BYE player (null)
BYE == 0

\* server.js 254-264: the length of a round, in clock ticks: 5 minutes under
\* FAST_SCHEDULE, else a day for DAILY and 7 days for any other frequency
intervalMs(league, fast) ==
  LET isDaily == league.matchupFrequency = "DAILY"
  IN IF isDaily
     THEN (IF fast THEN 5 * MinuteTicks ELSE 24 * 60 * MinuteTicks)
     ELSE (IF fast THEN 5 * MinuteTicks ELSE 7 * 24 * 60 * MinuteTicks)

\* a faulty variant of startDate: the schedule starts at the time of the call
startDateNow(league, clock) == toDate(clock)

\* server.js 266-268: the league's created_at, or the clock if the row has none
startDate(league, clock) ==
  IF league.created_at # NoValue THEN toDate(league.created_at) ELSE toDate(clock)

\* server.js 274-278: the members, with BYE after them if their number is odd
players(members) ==
  IF Len(members) % 2 = 1 THEN Append(members, BYE) ELSE members

\* a faulty variant of roundMatchups: a pairing with BYE leaves no entry
roundMatchupsNoBye(arr) ==
  LET numPlayers == Len(arr)
      half == numPlayers \div 2
      entry(i) == [homeUserId |-> arr[i], awayUserId |-> arr[numPlayers + 1 - i],
                   byeUserId |-> BYE]
  IN SelectSeq([i \in 1..half |-> entry(i)],
               LAMBDA m : m.homeUserId # BYE /\ m.awayUserId # BYE)

\* server.js 290-312: the entries of one round: arr[i] against arr[numPlayers-1-i];
\* a pairing with BYE is a bye entry
roundMatchups(arr) ==
  LET numPlayers == Len(arr)
      half == numPlayers \div 2
      entry(i) ==
        LET home == arr[i]
            away == arr[numPlayers + 1 - i]
        IN IF home # BYE /\ away # BYE
           THEN [homeUserId |-> home, awayUserId |-> away, byeUserId |-> BYE]
           ELSE [homeUserId |-> BYE, awayUserId |-> BYE,
                 byeUserId |-> IF home # BYE THEN home ELSE away]
  IN SelectSeq([i \in 1..half |-> entry(i)],
               LAMBDA m : m.homeUserId # BYE \/ m.byeUserId # BYE)

\* a faulty variant of rotate: the first player moves as well
rotateAll(arr) == <<arr[Len(arr)]>> \o SubSeq(arr, 1, Len(arr) - 1)

\* server.js 315-318: the first player stays, the last of the others moves to their
\* front
rotate(arr) ==
  <<arr[1]>> \o <<arr[Len(arr)]>> \o SubSeq(arr, 2, Len(arr) - 1)

\* server.js 283-319: the rounds from round r on, arr being the order of round r
RECURSIVE baseRoundsFrom(_, _, _)
baseRoundsFrom(arr, r, baseRounds) ==
  IF r >= baseRounds THEN <<>>
  ELSE <<roundMatchups(arr)>> \o baseRoundsFrom(rotate(arr), r + 1, baseRounds)

baseRoundMatchups(members) ==
  baseRoundsFrom(players(members), 0, Len(players(members)) - 1)

\* a faulty variant of totalRounds: the setting is ignored
baseRoundsOnly(matchupCount, baseRounds) == baseRounds

\* server.js 321-332: matchupCount rounds, at most 1000, if the setting is a positive
\* integer, else the base rounds
totalRounds(matchupCount, baseRounds) ==
  IF matchupCount # NoValue /\ matchupCount > 0
  THEN (IF matchupCount < 1000 THEN matchupCount ELSE 1000)
  ELSE baseRounds

\* a faulty variant of roundEnd: the round ends where the next one starts
roundEndNextStart(roundStart, interval) == roundStart + interval

\* server.js 338: the last millisecond of the round
roundEnd(roundStart, interval) == roundStart + interval - DateTicks

\* a faulty variant of computeLeagueSchedule: a schedule for a single member too
computeLeagueScheduleOfOne(league, members, fast, clock) ==
  IF Len(members) < 1 THEN <<>>
  ELSE LET base == baseRoundMatchups(members)
           baseRounds == Len(players(members)) - 1
           isDaily == league.matchupFrequency = "DAILY"
           interval == intervalMs(league, fast)
           roundStart(r) == startDate(league, clock) + r * interval
       IN [i \in 1..totalRounds(league.matchupCount, baseRounds) |->
             [roundIndex |-> i,
              label |-> <<IF isDaily THEN "Day" ELSE "Week", i>>,
              start |-> roundStart(i - 1),
              end |-> roundEnd(roundStart(i - 1), interval),
              matchups |-> base[((i - 1) % baseRounds) + 1]]]

\* server.js 253-354: no schedule for fewer than two members; else round r takes the
\* entries of base round r % baseRounds and lasts from startDate + r * intervalMs to
\* a millisecond before the next round.  fast is FAST_SCHEDULE and clock the time of
\* the call
computeLeagueSchedule(league, members, fast, clock) ==
  IF Len(members) < 2 THEN <<>>
  ELSE LET base == baseRoundMatchups(members)
           baseRounds == Len(players(members)) - 1
           isDaily == league.matchupFrequency = "DAILY"
           interval == intervalMs(league, fast)
           roundStart(r) == startDate(league, clock) + r * interval
       IN [i \in 1..totalRounds(league.matchupCount, baseRounds) |->
             [roundIndex |-> i,
              label |-> <<IF isDaily THEN "Day" ELSE "Week", i>>,
              start |-> roundStart(i - 1),
              end |-> roundEnd(roundStart(i - 1), interval),
              matchups |-> base[((i - 1) % baseRounds) + 1]]]

\* a handler calls computeLeagueSchedule with a league's row and its members
ComputeSchedule ==
  /\ sched.n < ScheduleCalls
  /\ sched' = [sched EXCEPT !.called = TRUE,
                            !.n = @ + 1,
                            !.at = Append(@, now),
                            !.baseRoundMatchups =
                               IF Len(sched.members) < 2 THEN <<>>
                               ELSE baseRoundMatchups(sched.members),
                            !.prev = sched.schedule,
                            !.schedule =
                               computeLeagueSchedule(sched.league, sched.members,
                                                     sched.FAST_SCHEDULE, now)]
  /\ UNCHANGED <<dbvars, tx, applied, session, req, last, log, nreq, nextLeagueId,
                 prices_latest, price_points_min, poller, now, val, score, stand, fin>>

\* ------------------------------------------------------------ the valuation
\* no valuation in progress and none finished
NoOut == [n |-> 0]

NoVal == [pc |-> "idle", n |-> 0, userId |-> 0, leagueId |-> 0, asOf |-> 0, via |-> 0,
          cash |-> 0, holdings |-> [s \in COIN_WHITELIST |-> 0], todo |-> {},
          sym |-> "", prices |-> [s \in {} |-> 0], cryptoValue |-> 0,
          mark |-> <<>>, out |-> NoOut, prev |-> NoOut]

\* ------------------------------------------------------------ the scoring
\* a round of a schedule that stands for none
NoRound == [roundIndex |-> 0, label |-> <<"", 0>>, start |-> 0, end |-> 0,
            matchups |-> <<>>]

\* the four valuations of scoreHeadToHeadMatchup
ScoreValues == {"homeStart", "homeEnd", "awayStart", "awayEnd"}

\* no call of scoreHeadToHeadMatchup in progress and none finished.  scale is the
\* number of units of totalValue in a USD
NoScore == [pc |-> "idle", n |-> 0, leagueId |-> 0, round |-> NoRound, homeUserId |-> 0,
            awayUserId |-> 0, at |-> 0, effectiveEnd |-> 0, scale |-> 1, todo |-> {},
            asOf |-> [v \in ScoreValues |-> 0],
            totalValue |-> [v \in ScoreValues |-> 0], out |-> NoOut]

\* no call of computeLeagueStandings in progress and none finished.  i and k are the
\* round and the entry the loops stand at, map is standingsMap, scores the results
\* of scoreHeadToHeadMatchup so far
\* league is the row the calling handler selected and via the handler: GET
\* /api/leagues/standings ("standings") or POST /api/leagues/complete ("complete")
NoStand == [pc |-> "idle", n |-> 0, leagueId |-> 0, members |-> <<>>, asOf |-> 0,
            schedule |-> <<>>, i |-> 0, k |-> 0, map |-> <<>>, scores |-> <<>>,
            league |-> NoLeague, via |-> "", out |-> NoOut]

\* what a handler of POST /api/leagues/complete answered: the HTTP status, the error and, for a success, the
\* finalized row and the final standings
NoRes == [status |-> 0, error |-> "", finalized |-> NoLeague, asOf |-> 0,
          finalStandings |-> <<>>]

\* the handlers of POST /api/leagues/complete, and one that has no request.
\* n counts the handler's requests, league is the row it selected, now the time it
\* read from the clock, call the number of its call of computeLeagueStandings and
\* res its latest response
Handlers == 1..NumSlots
NoFin == [pc |-> "idle", n |-> 0, user |-> 0, leagueId |-> 0, league |-> NoLeague,
          members |-> <<>>, schedule |-> <<>>, now |-> 0, call |-> 0,
          res |-> NoRes]

\* ------------------------------------------------------------ specifications
Init ==
  /\ leagues = {}
  /\ portfolios = {}
  /\ holdings = {}
  /\ trades = <<>>
  /\ prices_latest = {}
  /\ price_points_min = {}
  /\ nextLeagueId = 1
  /\ tx = [c \in Conns |-> NoTx]
  /\ session = [u \in AllUsers |-> 0]
  /\ req = [r \in Slots |-> NoReq]
  /\ poller = NoPoll
  /\ now = 0
  /\ nreq = 0
  /\ last = LogEntry0
  /\ log = <<>>
  /\ applied = {}
  /\ val = NoVal
  /\ sched = NoSched
  /\ score = NoScore
  /\ stand = NoStand
  /\ fin = [h \in Handlers |-> NoFin]

\* the statements of getOrCreateCurrentLeagueId for a session without a league
LeagueStep(r, c) ==
  \/ TradeGetFirstPortfolioLeague(r, c)
  \/ TradeGetUserFirstLeague(r, c)
  \/ TradeCreateSoloLeague(r, c)

\* the statements of POST /api/trade from ensurePortfolio on
TradeStep(r, c) ==
  \/ TradeEnsurePortfolio(r, c)
  \/ TradeGetCurrentPrice(r, c)
  \/ TradeBegin(r, c)
  \/ TradeGetCashForUpdate(r, c)
  \/ TradeGetHoldingForUpdate(r, c)
  \/ TradeReject(r, c)
  \/ TradeUpdateCash(r, c)
  \/ TradeUpdateHolding(r, c)
  \/ TradeInsertTrade(r, c)
  \/ TradeCommit(r, c)
  \/ TradeGetHoldings(r, c)
  \/ TradeGetCash(r, c)
  \/ TradeCatch(r, c)

\* the statements of POST /api/leagues
CreateStep(r, c) ==
  \/ CreateInsertLeague(r, c)
  \/ CreateEnsurePortfolio(r, c)

Env ==
  \/ PollLatest
  \/ PollMinute
  \/ Tick

\* One request at a time.  The pool opens a second client only when none is idle,
\* so every statement runs on the same client.
Next ==
  \/ StartTrade(1)
  \/ StartCreateLeague(1)
  \/ LeagueStep(1, 1)
  \/ TradeStep(1, 1)
  \/ CreateStep(1, 1)
  \/ Env

Spec == Init /\ [][Next]_vars

\* Two trade requests at a time on one portfolio, every statement on whichever
\* client of the pool is idle.  The start is the state Spec reaches when user 1 has
\* created a league and the poller has stored a price of 60000 USD.
TradesQtys == {1, QtySub * QtyScale}

InitTrades ==
  /\ leagues = {[id |-> 1, owner_user_id |-> 1, join_code |-> "AAAAAA",
                 member_limit |-> NoValue, matchupCount |-> NoValue,
                 matchupFrequency |-> "WEEKLY", created_at |-> 0, status |-> "ACTIVE",
                 winner_user_id |-> 0, completed_at |-> 0]}
  /\ portfolios = {[user_id |-> 1, league_id |-> 1, cash_usd |-> InitialCash,
                    created_at |-> 0]}
  /\ holdings = {}
  /\ trades = <<>>
  /\ prices_latest = {[symbol |-> "bitcoin", price_usd |-> 60000 * CashScale]}
  /\ price_points_min = {[symbol |-> "bitcoin", ts_min |-> 0,
                          price_usd |-> 60000 * CashScale]}
  /\ nextLeagueId = 2
  /\ tx = [c \in Conns |-> NoTx]
  /\ session = [u \in AllUsers |-> IF u = 1 THEN 1 ELSE 0]
  /\ req = [r \in Slots |-> NoReq]
  /\ poller = NoPoll
  /\ now = 0
  /\ nreq = 1
  /\ last = [LogEntry0 EXCEPT !.rid = 1, !.kind = "createLeague", !.user = 1,
                              !.leagueId = 1, !.status = 200, !.postCash = InitialCash]
  /\ log = <<>>
  /\ applied = {<<1, "league">>, <<1, "portfolio">>}
  /\ val = NoVal
  /\ sched = NoSched
  /\ score = NoScore
  /\ stand = NoStand
  /\ fin = [h \in Handlers |-> NoFin]

NextTrades ==
  \/ \E r \in Slots : StartTradeWith(r, {" Bitcoin "}, {"BUY", "sell"}, TradesQtys)
  \/ \E r \in Slots, c \in Conns : TradeStep(r, c)

SpecTrades == InitTrades /\ [][NextTrades]_vars

\* Users without a league: requests to create one and trade requests, handled
\* concurrently.  No price is stored yet.
NextStart ==
  \/ \E r \in Slots : StartTradeBy(r, AllUsers, RawSymbols, {"BUY", "HOLD"},
                                    {0, QtySub * QtyScale})
  \/ \E r \in Slots : StartCreateLeague(r)
  \/ \E r \in Slots, c \in Conns : LeagueStep(r, c)
  \/ \E r \in Slots, c \in Conns : TradeSoloEnsurePortfolio(r, c)
  \/ \E r \in Slots, c \in Conns : TradeEnsurePortfolio(r, c)
  \/ \E r \in Slots, c \in Conns : TradeGetCurrentPrice(r, c)
  \/ \E r \in Slots, c \in Conns : TradeCatch(r, c)
  \/ \E r \in Slots, c \in Conns : CreateStep(r, c)

SpecStart == Init /\ [][NextStart]_vars


\* ------------------------------------------------------------- the valuator
\* server.js 356-402: the newest minute price at or before asOf, else the latest
\* price, else 0
getPriceAtOrBefore(symbol, asOf) ==
  LET hist == {x \in price_points_min : x.symbol = symbol /\ x.ts_min <= asOf}
      latest == {x \in prices_latest : x.symbol = symbol}
  IN IF hist # {}
     THEN (CHOOSE x \in hist : \A y \in hist : y.ts_min <= x.ts_min).price_usd
     ELSE IF latest # {}
     THEN (CHOOSE x \in latest : TRUE).price_usd
     ELSE 0

\* queries.js 68-73: the trades of a portfolio ORDER BY created_at ASC; rows of the
\* same instant come in any order, so this is the set of the orders the query may
\* return
getTradesIn(table, userId, leagueId) ==
  LET mine == SelectSeq(table, LAMBDA t : t.user_id = userId /\ t.league_id = leagueId)
      n == Len(mine)
  IN {[i \in 1..n |-> mine[f[i]]] : f \in
        {g \in Permutations(1..n) :
           \A i, j \in 1..n : i < j => mine[g[i]].created_at <= mine[g[j]].created_at}}

getTrades(userId, leagueId) == getTradesIn(trades, userId, leagueId)

\* a faulty variant of ReplayTrade: a SELL keeps an entry below zero
ReplayTradeKeepsEntry(st, trade) ==
  LET qty == trade.qty
      cost == qty * trade.price_usd
      old == st.holdings[trade.symbol]
  IN IF trade.side = "BUY"
     THEN [cash |-> st.cash - cost,
           holdings |-> [st.holdings EXCEPT ![trade.symbol] = old + qty]]
     ELSE [cash |-> st.cash + cost,
           holdings |-> [st.holdings EXCEPT ![trade.symbol] = old - qty]]

\* server.js 431-447: one turn of the replay loop.  The replayed cash is in units of
\* 1 / (CashScale * QtyScale) USD, the product of a stored quantity and a stored
\* price; a holding of 0 is a symbol that is not in the map
ReplayTrade(st, trade) ==
  LET qty == trade.qty
      cost == qty * trade.price_usd
      old == st.holdings[trade.symbol]
  IN IF trade.side = "BUY"
     THEN [cash |-> st.cash - cost,
           holdings |-> [st.holdings EXCEPT ![trade.symbol] = old + qty]]
     ELSE [cash |-> st.cash + cost,
           holdings |-> [st.holdings EXCEPT ![trade.symbol] =
                           IF old - qty <= 0 THEN 0 ELSE old - qty]]

RECURSIVE ReplayFrom(_, _, _)
ReplayFrom(st, rows, i) ==
  IF i > Len(rows) THEN st ELSE ReplayFrom(ReplayTrade(st, rows[i]), rows, i + 1)

RECURSIVE SumOver(_, _)
SumOver(f, S) ==
  IF S = {} THEN 0
  ELSE LET x == CHOOSE y \in S : TRUE IN f[x] + SumOver(f, S \ {x})

\* server.js 404-471, on the rows getTrades returned
getPortfolioValueAtTime(rows, asOf) ==
  LET kept == SelectSeq(rows, LAMBDA t : toDate(t.created_at) <= asOf)
      st == ReplayFrom([cash |-> StartCashUsd * CashScale * QtyScale,
                        holdings |-> [s \in COIN_WHITELIST |-> 0]], kept, 1)
      symbols == {s \in COIN_WHITELIST : st.holdings[s] # 0}
      prices == [s \in symbols |-> getPriceAtOrBefore(s, asOf)]
      cryptoValue == SumOver([s \in symbols |-> st.holdings[s] * prices[s]], symbols)
  IN [cash |-> st.cash, cryptoValue |-> cryptoValue,
      totalValue |-> st.cash + cryptoValue,
      holdings |-> [s \in symbols |-> st.holdings[s]], prices |-> prices]

\* server.js 404-417: getPortfolioValueAtTime is called; at most max calls are
\* followed.  mark is the database as the call finds it, with the number of
\* requests accepted and whether any is in flight
ValueStart(users, asOfs, max) ==
  /\ val.pc = "idle" /\ val.n < max
  /\ \E u \in users, l \in {x.id : x \in leagues}, t \in asOfs :
       val' = [NoVal EXCEPT !.pc = "getTrades", !.n = val.n + 1, !.userId = u,
                            !.leagueId = l, !.asOf = t,
                            !.cash = StartCashUsd * CashScale * QtyScale,
                            !.mark = <<dbvars, tx, prices_latest, price_points_min, nreq,
                                       \A r \in Slots : req[r].pc = "idle",
                                       poller.pc>>,
                            !.prev = val.out]
  /\ UNCHANGED <<dbvars, tx, applied, session, req, last, log, nreq, nextLeagueId,
                 prices_latest, price_points_min, poller, now, sched,
                 score, stand, fin>>

\* server.js 421-447: the trades are read on client c, those after asOf are dropped
\* and the others replayed
ValueGetTrades(c) ==
  /\ val.pc = "getTrades"
  /\ \E rows \in getTradesIn(VTrades(c), val.userId, val.leagueId) :
       LET kept == SelectSeq(rows, LAMBDA t : toDate(t.created_at) <= val.asOf)
           st == ReplayFrom([cash |-> val.cash, holdings |-> val.holdings], kept, 1)
           symbols == {s \in COIN_WHITELIST : st.holdings[s] # 0}
       IN val' = [val EXCEPT !.cash = st.cash, !.holdings = st.holdings,
                             !.todo = symbols, !.via = c,
                             !.pc = IF symbols = {} THEN "return" ELSE "hist"]
  /\ UNCHANGED <<dbvars, tx, applied, session, req, last, log, nreq, nextLeagueId,
                 prices_latest, price_points_min, poller, now, sched,
                 score, stand, fin>>

\* a faulty variant of historicalPrice: the oldest bucket
oldestHistoricalPrice(symbol, asOf) ==
  LET hist == {x \in price_points_min : x.symbol = symbol /\ x.ts_min <= asOf}
  IN {x \in hist : \A y \in hist : x.ts_min <= y.ts_min}

\* server.js 366-376: price_points_min WHERE symbol AND ts_min <= asOf ORDER BY
\* ts_min DESC LIMIT 1
historicalPrice(symbol, asOf) ==
  LET hist == {x \in price_points_min : x.symbol = symbol /\ x.ts_min <= asOf}
  IN {x \in hist : \A y \in hist : y.ts_min <= x.ts_min}

\* server.js 385-392: prices_latest WHERE symbol
latestPrice(symbol) == {x \in prices_latest : x.symbol = symbol}

\* server.js 453-456: prices[sym] = px; cryptoValue += holdings[sym] * px
Priced(sym, px) ==
  [val EXCEPT !.prices = [s \in DOMAIN val.prices \cup {sym} |->
                            IF s = sym THEN px ELSE val.prices[s]],
              !.cryptoValue = @ + val.holdings[sym] * px,
              !.todo = @ \ {sym},
              !.sym = "",
              !.pc = IF val.todo = {sym} THEN "return" ELSE "hist"]

\* server.js 452, 365-379: the next held symbol; its historical price, if there is
\* one, is the price
ValueHistoricalPrice(c) ==
  /\ val.pc = "hist"
  /\ \E sym \in val.todo :
       LET rows == historicalPrice(sym, val.asOf)
       IN IF rows # {}
          THEN \E x \in rows : val' = Priced(sym, x.price_usd)
          ELSE val' = [val EXCEPT !.sym = sym, !.pc = "latest"]
  /\ UNCHANGED <<dbvars, tx, applied, session, req, last, log, nreq, nextLeagueId,
                 prices_latest, price_points_min, poller, now, sched,
                 score, stand, fin>>

\* server.js 384-401: else the latest price, else 0
ValueLatestPrice(c) ==
  /\ val.pc = "latest"
  /\ LET rows == latestPrice(val.sym)
     IN IF rows # {}
        THEN \E x \in rows : val' = Priced(val.sym, x.price_usd)
        ELSE val' = Priced(val.sym, 0)
  /\ UNCHANGED <<dbvars, tx, applied, session, req, last, log, nreq, nextLeagueId,
                 prices_latest, price_points_min, poller, now, sched,
                 score, stand, fin>>

\* server.js 459-470: the result
ValueReturn ==
  /\ val.pc = "return"
  /\ val' = [NoVal EXCEPT !.n = val.n, !.prev = val.prev,
                          !.out = [n |-> val.n, userId |-> val.userId,
                                   leagueId |-> val.leagueId, asOf |-> val.asOf,
                                   cash |-> val.cash, cryptoValue |-> val.cryptoValue,
                                   totalValue |-> val.cash + val.cryptoValue,
                                   holdings |-> [s \in DOMAIN val.prices |->
                                                   val.holdings[s]],
                                   prices |-> val.prices, mark |-> val.mark,
                                   via |-> val.via]]
  /\ UNCHANGED <<dbvars, tx, applied, session, req, last, log, nreq, nextLeagueId,
                 prices_latest, price_points_min, poller, now, sched,
                 score, stand, fin>>

ValueStep(c) ==
  \/ ValueGetTrades(c)
  \/ ValueHistoricalPrice(c)
  \/ ValueLatestPrice(c)
  \/ ValueReturn

\* ------------------------------------------------------- the matchup scorer
\* users.username, as its place in the alphabet: user 1 is named after user 2, and
\* the user with the largest id comes first
username(id) == (id % Cardinality(AllUsers)) + 1

\* server.js 1048-1059: the users with a portfolio in the league, ORDER BY username
membersOf(table, leagueId) ==
  LET ids == {p.user_id : p \in {x \in table : x.league_id = leagueId}}
      n == Cardinality(ids)
  IN IF n = 0 THEN <<>>
     ELSE CHOOSE m \in [1..n -> ids] :
            \A i, j \in 1..n : i < j => username(m[i]) < username(m[j])

\* a faulty variant of effectiveEnd: the nominal end of the round, ended or not
nominalEnd(clock, end) == end

\* server.js 488-489: now, or the end of the round if now is not before it
effectiveEnd(clock, end) == IF toDate(clock) < end THEN toDate(clock) ELSE end

Abs(x) == IF x < 0 THEN 0 - x ELSE x

\* a faulty variant of AboveEPS: the sign is kept
AboveEPSSigned(x, scale) == x > scale \div 10000

\* Math.abs(x) > EPS, EPS being 0.0001 USD and x a whole number of units of
\* 1 / scale USD: x * 10000 > scale
AboveEPS(x, scale) == Abs(x) > scale \div 10000

\* a faulty variant of matchupResult: equal profits are a tie
matchupResultByProfit(v, scale, homeUserId, awayUserId) ==
  LET homeProfit == v["homeEnd"] - v["homeStart"]
      awayProfit == v["awayEnd"] - v["awayStart"]
      diff == homeProfit - awayProfit
  IN IF AboveEPS(diff, scale)
     THEN IF diff > 0
          THEN [homeProfit |-> homeProfit, awayProfit |-> awayProfit,
                winnerUserId |-> homeUserId, result |-> "HOME_WIN"]
          ELSE [homeProfit |-> homeProfit, awayProfit |-> awayProfit,
                winnerUserId |-> awayUserId, result |-> "AWAY_WIN"]
     ELSE [homeProfit |-> homeProfit, awayProfit |-> awayProfit,
           winnerUserId |-> 0, result |-> "TIE"]

\* server.js 514-540: the profits, the winner (0 for null) and the result
matchupResult(v, scale, homeUserId, awayUserId) ==
  LET homeProfit == v["homeEnd"] - v["homeStart"]
      awayProfit == v["awayEnd"] - v["awayStart"]
      diff == homeProfit - awayProfit
      valueDiff == v["homeEnd"] - v["awayEnd"]
  IN IF AboveEPS(diff, scale)
     THEN IF diff > 0
          THEN [homeProfit |-> homeProfit, awayProfit |-> awayProfit,
                winnerUserId |-> homeUserId, result |-> "HOME_WIN"]
          ELSE [homeProfit |-> homeProfit, awayProfit |-> awayProfit,
                winnerUserId |-> awayUserId, result |-> "AWAY_WIN"]
     ELSE IF AboveEPS(valueDiff, scale)
          THEN IF valueDiff > 0
               THEN [homeProfit |-> homeProfit, awayProfit |-> awayProfit,
                     winnerUserId |-> homeUserId, result |-> "HOME_WIN"]
               ELSE [homeProfit |-> homeProfit, awayProfit |-> awayProfit,
                     winnerUserId |-> awayUserId, result |-> "AWAY_WIN"]
          ELSE [homeProfit |-> homeProfit, awayProfit |-> awayProfit,
                winnerUserId |-> 0, result |-> "TIE"]

\* server.js 473-512: scoreHeadToHeadMatchup is called: the clock is read and the
\* four valuations are asked for
ScoreCalled(leagueId, round, homeUserId, awayUserId) ==
  [NoScore EXCEPT !.pc = "values", !.n = score.n + 1,
                  !.leagueId = leagueId, !.round = round,
                  !.homeUserId = homeUserId, !.awayUserId = awayUserId,
                  !.at = toDate(now), !.effectiveEnd = effectiveEnd(now, round.end),
                  !.scale = CashScale * QtyScale,
                  !.todo = ScoreValues,
                  !.asOf = [v \in ScoreValues |->
                              IF v \in {"homeStart", "awayStart"}
                              THEN round.start ELSE effectiveEnd(now, round.end)]]

\* server.js 1126-1171: the handler of a round's scores scores a matchup of a round
\* of the league's schedule
ScoreStart(max) ==
  /\ score.pc = "idle" /\ score.n < max
  /\ \E league \in leagues :
       LET members == membersOf(portfolios, league.id)
           schedule == computeLeagueSchedule(league, members, sched.FAST_SCHEDULE, now)
       IN \E i \in 1..Len(schedule) :
            \E k \in 1..Len(schedule[i].matchups) :
              LET round == schedule[i]
                  m == round.matchups[k]
              IN /\ m.byeUserId = BYE
                 /\ score' = ScoreCalled(league.id, round, m.homeUserId, m.awayUserId)
  /\ UNCHANGED <<dbvars, tx, applied, session, req, last, log, nreq, nextLeagueId,
                 prices_latest, price_points_min, poller, now, val, sched, stand, fin>>

\* server.js 491-512: one of the four valuations returns; its trades were read on
\* client c
ScoreValue(c) ==
  /\ score.pc = "values"
  /\ \E v \in score.todo :
       LET userId == IF v \in {"homeStart", "homeEnd"} THEN score.homeUserId
                     ELSE score.awayUserId
       IN \E rows \in getTradesIn(VTrades(c), userId, score.leagueId) :
            score' = [score EXCEPT
                        !.totalValue[v] =
                           getPortfolioValueAtTime(rows, score.asOf[v]).totalValue,
                        !.todo = @ \ {v},
                        !.pc = IF score.todo = {v} THEN "return" ELSE "values"]
  /\ UNCHANGED <<dbvars, tx, applied, session, req, last, log, nreq, nextLeagueId,
                 prices_latest, price_points_min, poller, now, val, sched, stand, fin>>

\* server.js 514-559: the result
ScoreReturn ==
  /\ score.pc = "return"
  /\ LET res == matchupResult(score.totalValue, score.scale, score.homeUserId,
                              score.awayUserId)
     IN score' = [NoScore EXCEPT
                    !.n = score.n,
                    !.out = [n |-> score.n, leagueId |-> score.leagueId,
                             roundIndex |-> score.round.roundIndex,
                             start |-> score.round.start, end |-> score.round.end,
                             at |-> score.at, effectiveEnd |-> score.effectiveEnd,
                             scale |-> score.scale,
                             home |-> [userId |-> score.homeUserId,
                                       startValue |-> score.totalValue["homeStart"],
                                       endValue |-> score.totalValue["homeEnd"],
                                       profit |-> res.homeProfit],
                             away |-> [userId |-> score.awayUserId,
                                       startValue |-> score.totalValue["awayStart"],
                                       endValue |-> score.totalValue["awayEnd"],
                                       profit |-> res.awayProfit],
                             winnerUserId |-> res.winnerUserId,
                             result |-> res.result]]
  /\ UNCHANGED <<dbvars, tx, applied, session, req, last, log, nreq, nextLeagueId,
                 prices_latest, price_points_min, poller, now, val, sched, stand, fin>>

\* time passes: the clock jumps to a later instant of times
Pass(times) ==
  /\ \E t \in times : t > now /\ now' = t
  /\ UNCHANGED <<dbvars, tx, applied, session, req, last, log, nreq, nextLeagueId,
                 prices_latest, price_points_min, poller, val, sched, score, stand, fin>>

\* ------------------------------------------------------------ the standings
\* server.js 577-589: the entry of a member in standingsMap
NewEntry(userId) ==
  [userId |-> userId, wins |-> 0, losses |-> 0, ties |-> 0, games |-> 0,
   pointsFor |-> 0, pointsAgainst |-> 0, byes |-> 0]

\* a faulty variant of roundCounts: a round counts from its start
roundStarted(round, asOf) == round.start <= asOf

\* server.js 592-596: only the rounds that have ended by asOf are counted
roundCounts(round, asOf) == ~(round.end > asOf)

\* a faulty variant of foldScore: a tie is counted for the home side only
foldScoreHomeTie(map, out) ==
  LET home == out.home.userId
      away == out.away.userId
      tie == out.result = "TIE" \/ out.winnerUserId = 0
  IN [u \in DOMAIN map |->
        IF u = home
        THEN [map[u] EXCEPT !.games = @ + 1,
                            !.pointsFor = @ + out.home.profit,
                            !.pointsAgainst = @ + out.away.profit,
                            !.ties = IF tie THEN @ + 1 ELSE @,
                            !.wins = IF ~tie /\ out.winnerUserId = home THEN @ + 1
                                     ELSE @,
                            !.losses = IF ~tie /\ out.winnerUserId = away THEN @ + 1
                                       ELSE @]
        ELSE IF u = away
        THEN [map[u] EXCEPT !.games = @ + 1,
                            !.pointsFor = @ + out.away.profit,
                            !.pointsAgainst = @ + out.home.profit,
                            !.wins = IF ~tie /\ out.winnerUserId = away THEN @ + 1
                                     ELSE @,
                            !.losses = IF ~tie /\ out.winnerUserId = home THEN @ + 1
                                       ELSE @]
        ELSE map[u]]

\* server.js 615-638: the result of a matchup folded into the entries of its sides
foldScore(map, out) ==
  LET home == out.home.userId
      away == out.away.userId
      tie == out.result = "TIE" \/ out.winnerUserId = 0
  IN [u \in DOMAIN map |->
        IF u = home
        THEN [map[u] EXCEPT !.games = @ + 1,
                            !.pointsFor = @ + out.home.profit,
                            !.pointsAgainst = @ + out.away.profit,
                            !.ties = IF tie THEN @ + 1 ELSE @,
                            !.wins = IF ~tie /\ out.winnerUserId = home THEN @ + 1
                                     ELSE @,
                            !.losses = IF ~tie /\ out.winnerUserId = away THEN @ + 1
                                       ELSE @]
        ELSE IF u = away
        THEN [map[u] EXCEPT !.games = @ + 1,
                            !.pointsFor = @ + out.away.profit,
                            !.pointsAgainst = @ + out.home.profit,
                            !.ties = IF tie THEN @ + 1 ELSE @,
                            !.wins = IF ~tie /\ out.winnerUserId = away THEN @ + 1
                                     ELSE @,
                            !.losses = IF ~tie /\ out.winnerUserId = home THEN @ + 1
                                       ELSE @]
        ELSE map[u]]

\* Number(x.toFixed(2)): x, in units of 1 / scale USD, to the nearest cent, half
\* away from zero
toFixed2(x, scale) ==
  IF x >= 0 THEN RoundDiv(x * 100, scale) ELSE 0 - RoundDiv((0 - x) * 100, scale)

\* server.js 641-646: the reported entry, in cents
Reported(e, scale) ==
  [userId |-> e.userId, username |-> username(e.userId), wins |-> e.wins,
   losses |-> e.losses, ties |-> e.ties, games |-> e.games, byes |-> e.byes,
   pointsFor |-> toFixed2(e.pointsFor, scale),
   pointsAgainst |-> toFixed2(e.pointsAgainst, scale),
   pointDiff |-> toFixed2(e.pointsFor - e.pointsAgainst, scale)]

\* a faulty variant of compareStandings: the point differential comes first
compareByPointDiff(a, b) ==
  IF b.pointDiff # a.pointDiff THEN b.pointDiff - a.pointDiff
  ELSE IF b.wins # a.wins THEN b.wins - a.wins
  ELSE IF b.pointsFor # a.pointsFor THEN b.pointsFor - a.pointsFor
  ELSE a.username - b.username

\* server.js 648-658: the comparator of the sort: negative when a comes first
compareStandings(a, b) ==
  IF b.wins # a.wins THEN b.wins - a.wins
  ELSE IF b.pointDiff # a.pointDiff THEN b.pointDiff - a.pointDiff
  ELSE IF b.pointsFor # a.pointsFor THEN b.pointsFor - a.pointsFor
  ELSE a.username - b.username

\* Array.prototype.sort, a stable sort: x goes behind the entries that do not come
\* after it
RECURSIVE InsertSorted(_, _)
InsertSorted(sorted, x) ==
  IF sorted = <<>> THEN <<x>>
  ELSE IF compareStandings(sorted[Len(sorted)], x) <= 0 THEN Append(sorted, x)
  ELSE Append(InsertSorted(SubSeq(sorted, 1, Len(sorted) - 1), x),
              sorted[Len(sorted)])

RECURSIVE SortFrom(_, _, _)
SortFrom(sorted, seq, i) ==
  IF i > Len(seq) THEN sorted ELSE SortFrom(InsertSorted(sorted, seq[i]), seq, i + 1)

sortStandings(seq) == SortFrom(<<>>, seq, 1)

\* server.js 1210-1250, 566-589: a handler reads the league and its members and
\* calls computeLeagueStandings without an asOf: the clock is read, the schedule
\* computed and an entry made for every member
StandStart(max) ==
  /\ stand.pc = "idle" /\ stand.n < max
  /\ \E league \in leagues :
       LET members == membersOf(portfolios, league.id)
       IN stand' = [NoStand EXCEPT
                      !.league = league, !.via = "standings",
                      !.pc = "fold", !.n = stand.n + 1, !.leagueId = league.id,
                      !.members = members, !.asOf = toDate(now),
                      !.schedule = computeLeagueSchedule(league, members,
                                                         sched.FAST_SCHEDULE, now),
                      !.i = 1, !.k = 1,
                      !.map = [u \in {members[j] : j \in 1..Len(members)} |->
                                 NewEntry(u)]]
  /\ UNCHANGED <<dbvars, tx, applied, session, req, last, log, nreq, nextLeagueId,
                 prices_latest, price_points_min, poller, now, val, sched, score, fin>>

\* server.js 591-612: the loops move on: past the last round to the sort, past a
\* round that has not ended or has no more entries to the next round; a bye entry
\* is counted; for a matchup scoreHeadToHeadMatchup is called
StandNext ==
  /\ stand.pc = "fold"
  /\ IF stand.i > Len(stand.schedule)
     THEN /\ stand' = [stand EXCEPT !.pc = "sort"]
          /\ UNCHANGED score
     ELSE LET round == stand.schedule[stand.i]
          IN IF ~roundCounts(round, stand.asOf) \/ stand.k > Len(round.matchups)
             THEN /\ stand' = [stand EXCEPT !.i = @ + 1, !.k = 1]
                  /\ UNCHANGED score
             ELSE LET m == round.matchups[stand.k]
                  IN IF m.byeUserId # BYE
                     THEN /\ stand' = [stand EXCEPT
                                         !.map = IF m.byeUserId \in DOMAIN stand.map
                                                 THEN [@ EXCEPT ![m.byeUserId].byes
                                                                   = @ + 1]
                                                 ELSE @,
                                         !.k = @ + 1]
                          /\ UNCHANGED score
                     ELSE /\ score.pc = "idle"
                          /\ score' = ScoreCalled(stand.leagueId, round, m.homeUserId,
                                                  m.awayUserId)
                          /\ stand' = [stand EXCEPT !.pc = "await"]
  /\ UNCHANGED <<dbvars, tx, applied, session, req, last, log, nreq, nextLeagueId,
                 prices_latest, price_points_min, poller, now, val, sched, fin>>

\* server.js 606-638: the score has come and is folded into the two entries
StandFold ==
  /\ stand.pc = "await" /\ score.pc = "idle"
  /\ stand' = [stand EXCEPT
                 !.map = IF {score.out.home.userId, score.out.away.userId}
                            \subseteq DOMAIN stand.map
                         THEN foldScore(@, score.out) ELSE @,
                 !.scores = Append(@, score.out),
                 !.k = @ + 1,
                 !.pc = "fold"]
  /\ UNCHANGED <<dbvars, tx, applied, session, req, last, log, nreq, nextLeagueId,
                 prices_latest, price_points_min, poller, now, val, sched, score, fin>>

\* server.js 1252-1268: the champion GET /api/leagues/standings reports: the first
\* entry of the standings if the league's row is COMPLETED, else none (null)
championOf(league, standings) ==
  IF league.status = "COMPLETED" /\ Len(standings) > 0 THEN <<standings[1]>> ELSE <<>>

\* server.js 641-663: the entries are rounded to cents and sorted; 1252-1286: the
\* handler of GET /api/leagues/standings answers them with the league's row and
\* the champion
StandReturn ==
  /\ stand.pc = "sort"
  /\ LET standings == sortStandings(
                         [j \in 1..Len(stand.members) |->
                            Reported(stand.map[stand.members[j]],
                                     CashScale * QtyScale)])
     IN stand' = [NoStand EXCEPT
                    !.n = stand.n,
                    !.out = [n |-> stand.n, leagueId |-> stand.leagueId,
                             asOf |-> stand.asOf, members |-> stand.members,
                             schedule |-> stand.schedule, map |-> stand.map,
                             scores |-> stand.scores,
                             standings |-> standings,
                             league |-> stand.league, via |-> stand.via,
                             champion |-> IF stand.via = "standings"
                                          THEN championOf(stand.league, standings)
                                          ELSE <<>>]]
  /\ UNCHANGED <<dbvars, tx, applied, session, req, last, log, nreq, nextLeagueId,
                 prices_latest, price_points_min, poller, now, val, sched, score, fin>>

\* ---------------------------------------------- POST /api/leagues/complete
\* the response is sent and the handler is free again
FinRespond(h, status, error) ==
  fin' = [fin EXCEPT ![h] = [NoFin EXCEPT !.n = fin[h].n,
                                         !.res = [NoRes EXCEPT !.status = status,
                                                               !.error = error]]]

\* UPDATE leagues ... WHERE id = $1 RETURNING *: the league becomes COMPLETED, with
\* its winner and the time of the statement
finalizeLeague(rows, id, winnerId, clock) ==
  {IF l.id = id
   THEN [l EXCEPT !.status = "COMPLETED", !.winner_user_id = winnerId,
                  !.completed_at = clock]
   ELSE l : l \in rows}

\* server.js 1312-1320: the request of one of users arrives, for the league of its
\* body (one of bodies; NoValue: none) or, without one, the league of the session
FinStart(h, users, bodies, max) ==
  /\ fin[h].pc = "idle" /\ fin[h].n < max
  /\ \E u \in users, bodyLeagueId \in bodies :
       LET leagueId == IF bodyLeagueId # NoValue THEN bodyLeagueId ELSE session[u]
       IN /\ leagueId # 0
          /\ fin' = [fin EXCEPT ![h] = [NoFin EXCEPT !.pc = "getLeague",
                                                     !.n = fin[h].n + 1,
                                                     !.user = u,
                                                     !.leagueId = leagueId]]
  /\ UNCHANGED <<dbvars, tx, applied, session, req, last, log, nreq, nextLeagueId,
                 prices_latest, price_points_min, poller, now, val, sched, score,
                 stand>>

\* a faulty variant of FinGetLeague: the owner is not checked
FinGetLeagueOfAnyone(h, c) ==
  /\ fin[h].pc = "getLeague"
  /\ ReadOnly
  /\ LET rows == {l \in VLeagues(c) : l.id = fin[h].leagueId}
     IN IF rows = {}
        THEN FinRespond(h, 404, "League not found")
        ELSE \E league \in rows :
               IF league.status = "COMPLETED"
               THEN FinRespond(h, 400, "League is already completed")
               ELSE fin' = [fin EXCEPT ![h].pc = "getMembers", ![h].league = league]
  /\ UNCHANGED <<session, req, last, log, nreq, nextLeagueId, prices_latest,
                 price_points_min, poller, now, val, sched, score, stand>>

\* server.js 1322-1355: the league's row: it must exist, belong to the user and not
\* be COMPLETED
FinGetLeague(h, c) ==
  /\ fin[h].pc = "getLeague"
  /\ ReadOnly
  /\ LET rows == {l \in VLeagues(c) : l.id = fin[h].leagueId}
     IN IF rows = {}
        THEN FinRespond(h, 404, "League not found")
        ELSE \E league \in rows :
               IF league.owner_user_id # fin[h].user
               THEN FinRespond(h, 403, "Only the league owner can complete this league")
               ELSE IF league.status = "COMPLETED"
               THEN FinRespond(h, 400, "League is already completed")
               ELSE fin' = [fin EXCEPT ![h].pc = "getMembers", ![h].league = league]
  /\ UNCHANGED <<session, req, last, log, nreq, nextLeagueId, prices_latest,
                 price_points_min, poller, now, val, sched, score, stand>>

\* server.js 1377-1390: the last round has ended by the time read from the clock
seasonFinished(schedule, clock) == ~(schedule[Len(schedule)].end > toDate(clock))

\* server.js 1357-1390: the members, the schedule and the clock: the season must be
\* over
FinGetMembers(h, c) ==
  /\ fin[h].pc = "getMembers"
  /\ ReadOnly
  /\ LET members == membersOf(VPortfolios(c), fin[h].leagueId)
         schedule == computeLeagueSchedule(fin[h].league, members,
                                           sched.FAST_SCHEDULE, now)
     IN IF members = <<>>
        THEN FinRespond(h, 400, "League has no members")
        ELSE IF schedule = <<>>
        THEN FinRespond(h, 400, "League has no schedule to complete")
        ELSE IF ~seasonFinished(schedule, now)
        THEN FinRespond(h, 400, "Season is not finished yet")
        ELSE fin' = [fin EXCEPT ![h].pc = "standings", ![h].members = members,
                                ![h].schedule = schedule, ![h].now = toDate(now)]
  /\ UNCHANGED <<session, req, last, log, nreq, nextLeagueId, prices_latest,
                 price_points_min, poller, now, val, sched, score, stand>>

\* server.js 1392-1397, 566-589: computeLeagueStandings is called with the league,
\* the members and asOf = now.  One computation runs at a time: this one starts
\* when no other is in progress or waited for
FinStandings(h) ==
  /\ fin[h].pc = "standings"
  /\ stand.pc = "idle"
  /\ \A g \in Handlers : fin[g].pc # "await"
  /\ stand' = [NoStand EXCEPT
                 !.league = fin[h].league, !.via = "complete",
                 !.pc = "fold", !.n = stand.n + 1, !.leagueId = fin[h].leagueId,
                 !.members = fin[h].members, !.asOf = fin[h].now,
                 !.schedule = computeLeagueSchedule(fin[h].league, fin[h].members,
                                                    sched.FAST_SCHEDULE, now),
                 !.i = 1, !.k = 1,
                 !.map = [u \in {fin[h].members[j] : j \in 1..Len(fin[h].members)} |->
                            NewEntry(u)]]
  /\ fin' = [fin EXCEPT ![h].pc = "await", ![h].call = stand.n + 1]
  /\ UNCHANGED <<dbvars, tx, applied, session, req, last, log, nreq, nextLeagueId,
                 prices_latest, price_points_min, poller, now, val, sched, score>>

\* server.js 1406: the first entry of the standings
champion(standings) == standings[1]

\* server.js 1399-1428: the standings have come: their first entry is the champion,
\* finalizeLeague runs on client c, outside a transaction, and the finalized row is
\* answered; without a row the handler throws and answers 500
FinFinalize(h, c) ==
  /\ fin[h].pc = "await"
  /\ stand.pc = "idle" /\ stand.out.n = fin[h].call
  /\ tx[c].st # "active"
  /\ LET standings == stand.out.standings
         rows == {l \in leagues : l.id = fin[h].leagueId}
     IN IF standings = <<>>
        THEN /\ FinRespond(h, 400, "No standings available to finalize")
             /\ UNCHANGED leagues
        ELSE /\ leagues' = finalizeLeague(leagues, fin[h].leagueId,
                                          champion(standings).userId, now)
             /\ IF rows = {}
                THEN FinRespond(h, 500, "Failed to complete league")
                ELSE fin' = [fin EXCEPT ![h] =
                               [NoFin EXCEPT
                                  !.n = fin[h].n,
                                  !.res = [status |-> 200, error |-> "",
                                           finalized |->
                                             CHOOSE l \in leagues' :
                                               l.id = fin[h].leagueId,
                                           asOf |-> stand.out.asOf,
                                           finalStandings |-> standings]]]
  /\ UNCHANGED <<portfolios, holdings, trades, tx, applied, session, req, last, log,
                 nreq, nextLeagueId, prices_latest, price_points_min, poller, now,
                 val, sched, score, stand>>

\* ------------------------------------------- the trade handler run on its own
\* server.js 1813-1891 with no other request in flight: from the cash, the holding
\* (NoValue: no row) and the trade rows of a portfolio to those after the request
SerialTrade(st, e) ==
  LET curQty == IF st.qty = NoValue THEN 0 ELSE LoadQty(st.qty)
      row == [side |-> e.sideU, qty |-> StoreQty(e.qty), price_usd |-> e.px,
              cost_usd |-> e.cost]
      newQty == IF e.sideU = "BUY" THEN BuyQty(curQty, e.qty)
                ELSE SellQty(curQty, e.qty)
  IN IF AfterReads(e.sideU, st.cash, e.cost, curQty, e.qty) = "ROLLBACK" THEN st
     ELSE IF ~TradeRowAccepted(row) THEN st
     ELSE [cash |-> NewCash(e.sideU, st.cash, e.cost),
           qty |-> IF e.sideU = "SELL" /\ SellDeletes(newQty) THEN NoValue
                   ELSE StoreQty(newQty),
           rows |-> Append(st.rows, row)]

RECURSIVE SerialRun(_, _, _, _)
SerialRun(st, entries, order, i) ==
  IF i > Len(entries) THEN st
  ELSE SerialRun(SerialTrade(st, entries[order[i]]), entries, order, i + 1)


\* ------------------------------------------------------------------ properties
AllIdle == \A r \in Slots : req[r].pc = "idle"

\* the changes of request rid that reached the committed tables
ChangesOf(rid) == {t[2] : t \in {x \in applied : x[1] = rid}}

TradeChanges == {"cash", "holding", "trade"}

Successes == Len(SelectSeq(log, LAMBDA e : e.status = 200))

\* one USD in the unit of px * qty
Fine == QtyScale * QtySub

\* the holding a request found, in the handler's unit
HeldBefore(e) == IF e.preQty = NoValue THEN 0 ELSE LoadQty(e.preQty)

\* the request left the committed tables as it found them
Untouched(e) ==
  e.postCash = e.preCash /\ e.postQty = e.preQty /\ e.added = <<>> /\ e.frame

PricedTrade(e, sideU) == e.kind = "trade" /\ e.priced /\ e.sideU = sideU

\* the one trade row of request e is (side, qty, price, cost)
AddedRow(e, qty, cost) ==
  /\ Len(e.added) = 1
  /\ e.added[1].user_id = e.user /\ e.added[1].league_id = e.leagueId
  /\ e.added[1].symbol = e.coinId /\ e.added[1].side = e.sideU
  /\ e.added[1].qty = qty /\ e.added[1].price_usd = e.px
  /\ e.added[1].cost_usd = cost

\* C1: two BUY requests on one portfolio whose cash covers exactly one of them:
\* exactly one succeeds, the other is rejected with insufficient cash, one trade row
\* is recorded and the cash is debited once.
C1_ExactlyOneBuySucceeds ==
  (/\ AllIdle
   /\ Len(log) = 2
   /\ log[1].sideU = "BUY" /\ log[2].sideU = "BUY"
   /\ log[1].cost <= InitialCash /\ log[2].cost <= InitialCash
   /\ log[1].cost + log[2].cost > InitialCash)
  => /\ {log[1].status, log[2].status} = {200, 400}
     /\ \A i \in 1..2 : log[i].status = 400 => log[i].err = "insufficient cash"
     /\ Len(trades) = 1
     /\ \E i \in 1..2 : /\ log[i].status = 200
                        /\ CashIn(portfolios, 1, 1) = InitialCash - log[i].cost

\* C2: when the trade requests on a portfolio have all been answered, its cash, its
\* holding and its trade rows are those of the same requests handled one at a time
\* in some order.
C2_Serializable ==
  AllIdle =>
    \E order \in Permutations(1..Len(log)) :
      LET end == SerialRun([cash |-> InitialCash, qty |-> NoValue, rows |-> <<>>],
                           log, order, 1)
      IN /\ end.cash = CashIn(portfolios, 1, 1)
         /\ end.qty = QtyIn(holdings, 1, 1, "bitcoin")
         /\ Len(end.rows) = Len(trades)
         /\ \A i \in 1..Len(trades) :
              end.rows[i] = [side |-> trades[i].side, qty |-> trades[i].qty,
                             price_usd |-> trades[i].price_usd,
                             cost_usd |-> trades[i].cost_usd]

\* C3: between requests, replaying the trades of a portfolio from the starting cash
\* with asOf = now gives exactly the stored cash and the stored holdings (same
\* symbols, same quantities).
C3_ReplayEqualsStored ==
  AllIdle =>
    \A p \in portfolios : \A rows \in getTrades(p.user_id, p.league_id) :
      LET v == getPortfolioValueAtTime(rows, now)
          held == {h \in holdings : h.user_id = p.user_id /\ h.league_id = p.league_id}
      IN /\ v.cash = p.cash_usd * QtyScale
         /\ DOMAIN v.holdings = {h.symbol : h \in held}
         /\ \A h \in held : v.holdings[h.symbol] = h.qty

\* C4: the cash change, the holding change and the trade row of a request reach the
\* tables all together or not at all, and a request that is not answered with
\* success leaves none of them.
C4_AllOrNothing ==
  /\ \A rid \in 1..MaxReqs : ChangesOf(rid) \cap TradeChanges \in {{}, TradeChanges}
  /\ \A i \in 1..Len(log) :
       log[i].status # 200 => ChangesOf(log[i].rid) \cap TradeChanges = {}

\* C5: when every request has been answered, the trade rows are as many as the
\* successful responses.
C5_RowsMatchSuccesses == AllIdle => Len(trades) = Successes

\* C6: every holdings row has a strictly positive quantity.
C6_HoldingsPositive == \A h \in holdings : h.qty > 0

\* C7: a SELL of more than the holding is rejected with 'insufficient quantity' and
\* leaves cash, holdings and trade rows unchanged.
C7_SellBeyondHoldingRejected ==
  (PricedTrade(last, "SELL") /\ last.qty > HeldBefore(last))
  => /\ last.status = 400
     /\ last.err = "insufficient quantity"
     /\ Untouched(last)

C7_Witness ==
  /\ PricedTrade(last, "SELL")
  /\ last.preQty # NoValue
  /\ last.qty > HeldBefore(last)
  /\ last.err = "insufficient quantity"

\* C8 as written: a BUY of q at price p costs exactly p * q; with less cash than that
\* it is rejected and nothing changes, otherwise the cash falls by exactly p * q, the
\* holding grows by q and the row (BUY, q, p, p * q) is appended.
C8_BuyExactProduct ==
  PricedTrade(last, "BUY") =>
    IF last.preCash * Fine < last.px * last.qty
    THEN last.status = 400 /\ last.err = "insufficient cash" /\ Untouched(last)
    ELSE /\ last.status = 200
         /\ last.postCash * Fine = last.preCash * Fine - last.px * last.qty
         /\ last.postQty # NoValue
         /\ last.postQty * QtySub = HeldBefore(last) + last.qty
         /\ Len(last.added) = 1
         /\ last.added[1].side = "BUY"
         /\ last.added[1].qty * QtySub = last.qty
         /\ last.added[1].price_usd = last.px
         /\ last.added[1].cost_usd * Fine = last.px * last.qty

\* C8: a BUY of q at price p costs p * q rounded to the 8 decimals of the cash
\* column.  With less cash than the cost it is rejected with 'insufficient cash' and
\* nothing changes; a q that rounds to 0 at the 12 decimals of the quantity columns
\* is answered with an error and nothing changes; otherwise the cash falls by the
\* cost, the holding becomes the old quantity + q rounded to 12 decimals, and the
\* row (BUY, q rounded, p, cost) is appended.
C8_BuyRoundedCost ==
  PricedTrade(last, "BUY") =>
    LET cost == RoundDiv(last.px * last.qty, Fine)
        q12 == RoundDiv(last.qty, QtySub)
    IN IF last.preCash < cost
       THEN last.status = 400 /\ last.err = "insufficient cash" /\ Untouched(last)
       ELSE IF q12 = 0
       THEN last.status = 500 /\ Untouched(last)
       ELSE /\ last.status = 200
            /\ last.postCash = last.preCash - cost
            /\ last.postQty = RoundDiv(HeldBefore(last) + last.qty, QtySub)
            /\ AddedRow(last, q12, cost)
            /\ last.frame

C8_Witness ==
  /\ PricedTrade(last, "BUY")
  /\ last.status = 200
  /\ last.preQty # NoValue
  /\ (last.px * last.qty) % Fine # 0

ValidationErrors == {"coin not allowed (not in global whitelist)",
                     "side must be BUY or SELL", "quantity must be > 0"}

C10_InvalidChangesNothing ==
  (last.kind = "trade" /\ last.err \in ValidationErrors)
  => last.status = 400 /\ ChangesOf(last.rid) = {}


\* C11: a trade request that finds no latest-price row for its asset is answered
\* at once with 'no current price' (no retry) and leaves cash, holdings and trade
\* rows as they were when it arrived; the price a request trades at is a
\* latest-price row it read, and every trade row carries that price.
C11_PriceUnavailable ==
  [][\A r \in Slots :
       /\ (/\ req[r].kind = "trade" /\ req[r].pc = "getCurrentPrice"
           /\ req'[r] # req[r]
           /\ ~\E p \in prices_latest : p.symbol = req[r].coinId)
          => /\ req'[r] = NoReq
             /\ last'.rid = req[r].rid
             /\ last'.status = 400
             /\ last'.err = "no current price; try later"
             /\ Untouched(last')
             /\ ChangesOf(req[r].rid)' \cap TradeChanges = {}
       /\ (req[r].kind = "trade" /\ req[r].pc = "getCurrentPrice" /\ req'[r].pc = "BEGIN")
          => \E p \in prices_latest :
               p.symbol = req[r].coinId /\ p.price_usd = req'[r].px
       /\ (req[r].kind = "trade" /\ Len(trades') > Len(trades))
          => \A i \in (Len(trades) + 1)..Len(trades') :
               trades'[i].price_usd = req[r].px]_vars

C11_Witness ==
  /\ last.kind = "trade"
  /\ last.err = "no current price; try later"
  /\ last.preCash # NoValue


\* C12: the trade log is append-only: every step keeps every trade row there is,
\* with the same user, league, asset, side, quantity, price, cost and timestamp.
C12_AppendOnly ==
  [][/\ Len(trades') >= Len(trades)
     /\ SubSeq(trades', 1, Len(trades)) = trades]_vars

C12_Witness == Len(trades) = 2 /\ trades[1].side = "BUY" /\ trades[2].side = "SELL"


\* ------------------------------------------------------------ joining a league
\* the statements of POST /api/leagues/join
JoinStep(r, c) ==
  \/ JoinGetLeagueByJoinCode(r, c)
  \/ JoinCountLeagueMembers(r, c)
  \/ JoinEnsurePortfolio(r, c)

\* a league with the smallest member limit is created and users join it, the
\* requests handled concurrently
JoinMemberCounts == {2}

NextJoin ==
  \/ \E r \in Slots : StartCreateLeagueWith(r, JoinMemberCounts)
  \/ \E r \in Slots, c \in Conns : CreateStep(r, c)
  \/ \E r \in Slots : StartJoin(r)
  \/ \E r \in Slots, c \in Conns : JoinStep(r, c)

SpecJoin == Init /\ [][NextJoin]_vars

\* C13: a league with a member limit never has more portfolios than the limit.
C13_MemberLimit ==
  \A l \in leagues :
    l.member_limit # NoValue
      => countLeagueMembers(portfolios, l.id) <= l.member_limit


\* the statements that call ensurePortfolio
EnsurePcs == {"ensurePortfolio", "soloEnsurePortfolio", "createEnsurePortfolio",
              "joinEnsurePortfolio"}

\* C14: there is at most one portfolio per (user, league), a new portfolio starts
\* with cash 100000, and an ensurePortfolio statement leaves every existing
\* portfolio (cash, creation time) and every holding as it was.
C14_OnePortfolio ==
  [][/\ \A p, q \in portfolios' : PKey(p) = PKey(q) => p = q
     /\ \A p \in portfolios' :
          (~\E q \in portfolios : PKey(q) = PKey(p))
            => p.cash_usd = StartCashUsd * CashScale
     /\ \A r \in Slots :
          (req[r].pc \in EnsurePcs /\ req'[r] # req[r])
            => /\ \A p \in portfolios : p \in portfolios'
               /\ holdings' = holdings]_vars

C14_Witness ==
  /\ req[1].kind = "trade" /\ req[1].pc = "getCurrentPrice"
  /\ \E p \in portfolios : PKey(p) = <<req[1].user, req[1].leagueId>>
                           /\ p.cash_usd # InitialCash
  /\ holdings # {}


\* C15: all leagues have pairwise distinct join codes, and a creation that draws a
\* code already in use creates no league and tries again with a new code: the
\* loop of POST /api/leagues stays at its insert, and so does the loop of
\* ensureSoloLeagueForUser.
C15_DistinctCodesRetry ==
  [][/\ \A a, b \in leagues' : a.join_code = b.join_code => a.id = b.id
     /\ (nextLeagueId' # nextLeagueId /\ leagues' = leagues)
          => \A r \in Slots : req'[r].pc = req[r].pc
     /\ \A r \in Slots :
          (/\ req[r].pc = "createSoloLeague" /\ req'[r] # req[r]
           /\ \E l \in leagues : l.join_code = req'[r].joinCode)
            => leagues' = leagues /\ req'[r].pc = "createSoloLeague"]_vars


\* --------------------------------------------- trades on two portfolios
\* Users 1 and 2 are members of league 1 and each sends trade requests on their own
\* portfolio (slot u carries the requests of user u); the statements of both
\* handlers go through the one pool.
PairUsers == {1, 2}

\* the number of trade requests the two users send in all
PairReqs == 2

InitPairs ==
  /\ leagues = {[id |-> 1, owner_user_id |-> 1, join_code |-> "AAAAAA",
                 member_limit |-> NoValue, matchupCount |-> NoValue,
                 matchupFrequency |-> "WEEKLY", created_at |-> 0, status |-> "ACTIVE",
                 winner_user_id |-> 0, completed_at |-> 0]}
  /\ portfolios = {[user_id |-> u, league_id |-> 1, cash_usd |-> InitialCash,
                    created_at |-> 0] : u \in PairUsers}
  /\ holdings = {}
  /\ trades = <<>>
  /\ prices_latest = {[symbol |-> "bitcoin", price_usd |-> 60000 * CashScale]}
  /\ price_points_min = {[symbol |-> "bitcoin", ts_min |-> 0,
                          price_usd |-> 60000 * CashScale]}
  /\ nextLeagueId = 2
  /\ tx = [c \in Conns |-> NoTx]
  /\ session = [u \in AllUsers |-> IF u \in PairUsers THEN 1 ELSE 0]
  /\ req = [r \in Slots |-> NoReq]
  /\ poller = NoPoll
  /\ now = 0
  /\ nreq = 0
  /\ last = LogEntry0
  /\ log = <<>>
  /\ applied = {}
  /\ val = NoVal
  /\ sched = NoSched
  /\ score = NoScore
  /\ stand = NoStand
  /\ fin = [h \in Handlers |-> NoFin]

NextPairs ==
  \/ \E u \in PairUsers :
       /\ nreq < PairReqs
       /\ StartTradeBy(u, {u}, {" Bitcoin "}, {"BUY", "sell"}, TradesQtys)
  \/ \E r \in Slots, c \in Conns : TradeStep(r, c)

SpecPairs == InitPairs /\ [][NextPairs]_vars

\* C16: trades on different portfolios do not interfere.  No statement of a trade
\* request of one user changes the stored cash, the stored holdings or the trade
\* rows of another user.
C16_PortfoliosIndependent ==
  [][\A r \in Slots :
       (req[r].kind = "trade" /\ req'[r] # req[r])
         => /\ {p \in portfolios' : p.user_id # req[r].user}
                 = {p \in portfolios : p.user_id # req[r].user}
            /\ {h \in holdings' : h.user_id # req[r].user}
                 = {h \in holdings : h.user_id # req[r].user}
            /\ SelectSeq(trades', LAMBDA t : t.user_id # req[r].user)
                 = SelectSeq(trades, LAMBDA t : t.user_id # req[r].user)]_vars


\* ---------------------------------------------------------- valuations
\* The valuation of a portfolio over the trade tables and the price tables the
\* program can have built: up to MaxTrades trade rows of users 1 and 2 in league 1,
\* a latest price, and minute buckets at the times of ValueMinutes; asOf is a
\* JavaScript Date.  The valuation reads only trades, price_points_min and
\* prices_latest.
MaxTrades == 2
ValueTimes == 0..DateTicks
ValueMinutes == {0, MinuteTicks}
ValueAsOfs == {0, DateTicks}
ValueCalls == 2

ValueTradeRows ==
  {[user_id |-> u, league_id |-> 1, symbol |-> "bitcoin", side |-> sd, qty |-> q,
    price_usd |-> p, cost_usd |-> RoundDiv(p * q, QtyScale), created_at |-> t] :
     u \in PairUsers, sd \in {"BUY", "SELL"}, q \in 1..2, p \in {60000 * CashScale},
     t \in ValueTimes}

ValueTradeTables ==
  UNION {[1..n -> ValueTradeRows] : n \in 0..MaxTrades}

\* at most one bucket for each minute
ValueBuckets ==
  {B \in SUBSET {[symbol |-> "bitcoin", ts_min |-> t, price_usd |-> p] :
                   t \in ValueMinutes, p \in FeedPrices} :
     \A x, y \in B : x.ts_min = y.ts_min => x = y}

InitValue ==
  /\ leagues = {[id |-> 1, owner_user_id |-> 1, join_code |-> "AAAAAA",
                 member_limit |-> NoValue, matchupCount |-> NoValue,
                 matchupFrequency |-> "WEEKLY", created_at |-> 0, status |-> "ACTIVE",
                 winner_user_id |-> 0, completed_at |-> 0]}
  /\ portfolios = {[user_id |-> u, league_id |-> 1, cash_usd |-> InitialCash,
                    created_at |-> 0] : u \in PairUsers}
  /\ holdings = {}
  /\ trades \in ValueTradeTables
  /\ prices_latest \in {{[symbol |-> "bitcoin", price_usd |-> p]} : p \in FeedPrices}
  /\ price_points_min \in ValueBuckets
  /\ nextLeagueId = 2
  /\ tx = [c \in Conns |-> NoTx]
  /\ session = [u \in AllUsers |-> IF u \in PairUsers THEN 1 ELSE 0]
  /\ req = [r \in Slots |-> NoReq]
  /\ poller = NoPoll
  /\ now = DateTicks
  /\ nreq = 0
  /\ last = LogEntry0
  /\ log = <<>>
  /\ applied = {}
  /\ val = NoVal
  /\ sched = NoSched
  /\ score = NoScore
  /\ stand = NoStand
  /\ fin = [h \in Handlers |-> NoFin]

NextValue ==
  \/ ValueStart({1}, ValueAsOfs, ValueCalls)
  \/ \E c \in Conns : ValueStep(c)

SpecValue == InitValue /\ [][NextValue]_vars

\* the rows of (userId, leagueId) among table whose time is in times
TradesAt(table, userId, leagueId, times) ==
  SelectSeq(table, LAMBDA t : /\ t.user_id = userId /\ t.league_id = leagueId
                              /\ t.created_at \in times)

\* the money the rows of one side moved
RECURSIVE Moved(_, _, _)
Moved(rows, side, i) ==
  IF i = 0 THEN 0
  ELSE Moved(rows, side, i - 1)
         + (IF rows[i].side = side THEN rows[i].qty * rows[i].price_usd ELSE 0)

\* the quantity of symbol held after the first i rows: a BUY adds, a SELL takes
\* away and an entry at or below zero is removed
RECURSIVE HeldAfter(_, _, _)
HeldAfter(rows, symbol, i) ==
  IF i = 0 THEN 0
  ELSE LET h == HeldAfter(rows, symbol, i - 1)
           t == rows[i]
       IN IF t.symbol # symbol THEN h
          ELSE IF t.side = "BUY" THEN h + t.qty
          ELSE IF h - t.qty <= 0 THEN 0 ELSE h - t.qty

\* the orders of rows that ascend in created_at
Ascending(rows) ==
  {f \in Permutations(1..Len(rows)) :
     \A i, j \in 1..Len(rows) : i < j => rows[f[i]].created_at <= rows[f[j]].created_at}

\* the valuation has replayed, in ascending time, exactly the rows own
Replayed(own) ==
  /\ val'.cash = StartCashUsd * CashScale * QtyScale
                   - Moved(own, "BUY", Len(own)) + Moved(own, "SELL", Len(own))
  /\ \E f \in Ascending(own) :
       \A s \in COIN_WHITELIST :
         val'.holdings[s] = HeldAfter([i \in 1..Len(own) |-> own[f[i]]], s, Len(own))
  /\ val'.todo = {s \in COIN_WHITELIST : val'.holdings[s] > 0}

\* the result is the cash and the holdings replayed, and totalValue the cash plus
\* the sum of qty * price over the holdings
Totalled ==
  /\ val'.out.cash = val.cash
  /\ DOMAIN val'.out.holdings = {s \in COIN_WHITELIST : val.holdings[s] > 0}
  /\ \A s \in DOMAIN val'.out.holdings : val'.out.holdings[s] = val.holdings[s]
  /\ val'.out.totalValue
       = val.cash + SumOver([s \in DOMAIN val'.out.holdings |->
                               val.holdings[s] * val'.out.prices[s]],
                            DOMAIN val'.out.holdings)

\* C17 as written: the valuation starts from 100000 and no holdings and replays, in
\* ascending time, exactly the rows of (user, league) in trades with timestamp <=
\* asOf: a BUY takes qty * price from the cash and adds qty to the holding, a SELL
\* does the reverse and an entry at or below zero is removed; rows with a later
\* timestamp and rows of other users or leagues have no part in it, and totalValue
\* is the cash plus the sum of qty * price over the holdings left.
C17_ReplaysUpToAsOf ==
  [][/\ (val.pc = "getTrades" /\ val'.pc # "getTrades") =>
          Replayed(TradesAt(VTrades(val'.via), val.userId, val.leagueId,
                            {t \in ValueTimes : t <= val.asOf}))
     /\ (val.pc = "return" /\ val'.pc = "idle") => Totalled]_vars

\* C17: the valuation starts from 100000 and no holdings and replays, in ascending
\* time, exactly the rows of (user, league) in trades whose timestamp, cut to the
\* millisecond, is <= asOf (a row less than a millisecond after asOf is replayed):
\* a BUY takes qty * price from the cash and adds qty to the holding, a SELL does
\* the reverse and an entry at or below zero is removed; other rows have no part in
\* it, and totalValue is the cash plus the sum of qty * price over the holdings
\* left.
C17_ReplaysUpToAsOfMs ==
  [][/\ (val.pc = "getTrades" /\ val'.pc # "getTrades") =>
          Replayed(TradesAt(VTrades(val'.via), val.userId, val.leagueId,
                            {t \in ValueTimes : toDate(t) <= val.asOf}))
     /\ (val.pc = "return" /\ val'.pc = "idle") => Totalled]_vars

\* user 1 bought less than a millisecond after time 0 and sold a millisecond
\* later; the valuation as of 0 has replayed the BUY alone
C17_Witness ==
  /\ val.out.n > 0 /\ val.out.asOf = 0
  /\ Len(trades) = 2
  /\ trades[1].user_id = 1 /\ trades[1].side = "BUY" /\ trades[1].created_at = 1
  /\ trades[2].user_id = 1 /\ trades[2].side = "SELL"
  /\ trades[2].created_at = DateTicks
  /\ val.out.holdings = [s \in {"bitcoin"} |-> trades[1].qty]
  /\ val.out.cash = StartCashUsd * CashScale * QtyScale
                      - trades[1].qty * trades[1].price_usd


\* C18: the price of a held asset is that of the minute bucket with the greatest
\* time at or before asOf if there is one; the latest price is asked for only when
\* there is no such bucket, and is the price if the asset has a latest-price row;
\* otherwise the price is 0.  Whatever the tables hold, the valuation goes on.
C18_PriceChoice ==
  [][/\ (val.pc = "hist" /\ val' # val) =>
          \E sym \in val.todo :
            LET upTo == {x \in price_points_min :
                           x.symbol = sym /\ x.ts_min <= val.asOf}
            IN IF upTo = {}
               THEN val'.pc = "latest" /\ val'.sym = sym /\ val'.prices = val.prices
               ELSE /\ val'.pc \in {"hist", "return"}
                    /\ sym \in DOMAIN val'.prices
                    /\ \E x \in upTo : /\ \A y \in upTo : y.ts_min <= x.ts_min
                                       /\ val'.prices[sym] = x.price_usd
     /\ (val.pc = "latest" /\ val' # val) =>
          /\ val'.pc \in {"hist", "return"}
          /\ val.sym \in DOMAIN val'.prices
          /\ IF \E x \in prices_latest : x.symbol = val.sym
             THEN \E x \in prices_latest :
                    x.symbol = val.sym /\ val'.prices[val.sym] = x.price_usd
             ELSE val'.prices[val.sym] = 0]_vars

\* with a bucket at MinuteTicks only: the valuation as of 0 has used the latest price
\* and the valuation as of MinuteTicks the bucket's
C18_Witness ==
  /\ val.prev.n > 0 /\ val.out.n > 0
  /\ val.prev.asOf = 0 /\ val.out.asOf = MinuteTicks
  /\ \E b \in price_points_min, l \in prices_latest :
       /\ b.ts_min = MinuteTicks /\ b.price_usd # l.price_usd
       /\ ~\E x \in price_points_min : x.ts_min < MinuteTicks
       /\ "bitcoin" \in DOMAIN val.prev.prices /\ "bitcoin" \in DOMAIN val.out.prices
       /\ val.prev.prices["bitcoin"] = l.price_usd
       /\ val.out.prices["bitcoin"] = b.price_usd


\* ------------------------------------- valuations beside trade requests
\* One portfolio with a price stored: trade requests of user 1, one at a time, their
\* statements on either client of the pool, and valuations of the portfolio.
LeakReqs == 2

NextLeak ==
  \/ /\ nreq < LeakReqs
     /\ StartTradeWith(1, {" Bitcoin "}, {"BUY", "sell"}, TradesQtys)
  \/ \E c \in Conns : TradeStep(1, c)
  \/ ValueStart({1}, {0}, ValueCalls)
  \/ \E c \in Conns : ValueGetTrades(c)
  \/ \E c \in Conns : ValueHistoricalPrice(c)
  \/ ValueReturn

SpecLeak == InitTrades /\ [][NextLeak]_vars

\* the database, the requests accepted and whether any is in flight
Mark ==
  <<dbvars, tx, prices_latest, price_points_min, nreq,
    \A r \in Slots : req[r].pc = "idle", poller.pc>>

\* the latest two valuations had the same arguments, no request was in flight when
\* the first began, none has been accepted since, and the database is as both calls
\* found it
SameCallTwice ==
  /\ val.pc = "idle" /\ val.prev.n > 0 /\ val.out.n > 0
  /\ val.prev.userId = val.out.userId /\ val.prev.leagueId = val.out.leagueId
  /\ val.prev.asOf = val.out.asOf
  /\ val.prev.mark = val.out.mark /\ val.out.mark = Mark
  /\ \A r \in Slots : req[r].pc = "idle"

SameResult ==
  /\ val.prev.cash = val.out.cash /\ val.prev.holdings = val.out.holdings
  /\ val.prev.prices = val.out.prices
  /\ val.prev.cryptoValue = val.out.cryptoValue
  /\ val.prev.totalValue = val.out.totalValue

\* C19: no step of a valuation changes a row of leagues, portfolios, holdings,
\* trades or the price tables, and two valuations with the same user, league and
\* asOf with no write between them return the same cash, holdings, prices,
\* cryptoValue and totalValue.
C19_ReadOnlyRepeatable ==
  [][/\ val' # val =>
          UNCHANGED <<leagues, portfolios, holdings, trades, prices_latest,
                      price_points_min, tx>>
     /\ SameCallTwice' => SameResult']_vars


\* ------------------------------------------------------------ schedules
\* computeLeagueSchedule on the rosters of up to MaxMembers members (the rows of the
\* members query: distinct user ids in any order) and the matchupCount settings
MaxMembers == 5
MemberIds == 1..MaxMembers
Rosters ==
  {m \in UNION {[1..n -> MemberIds] : n \in 0..MaxMembers} :
     \A i, j \in 1..Len(m) : i # j => m[i] # m[j]}
\* POST /api/leagues stores no matchupCount or one of 1..1000: none, the least, and
\* one above every number of base rounds
ScheduleMatchupCounts == {NoValue, 1, 2 * MaxMembers}
\* the frequencies POST /api/leagues stores, and creation times on and between whole
\* milliseconds
ScheduleFrequencies == {"DAILY", "WEEKLY"}
ScheduleCreatedAts == {0, 1, DateTicks}

InitSchedule ==
  /\ leagues = {}
  /\ portfolios = {}
  /\ holdings = {}
  /\ trades = <<>>
  /\ prices_latest = {}
  /\ price_points_min = {}
  /\ nextLeagueId = 1
  /\ tx = [c \in Conns |-> NoTx]
  /\ session = [u \in AllUsers |-> 0]
  /\ req = [r \in Slots |-> NoReq]
  /\ poller = NoPoll
  /\ now = 0
  /\ nreq = 0
  /\ last = LogEntry0
  /\ log = <<>>
  /\ applied = {}
  /\ val = NoVal
  /\ \E m \in Rosters, k \in ScheduleMatchupCounts, f \in ScheduleFrequencies,
        t \in ScheduleCreatedAts, fast \in BOOLEAN :
       sched = [NoSched EXCEPT !.members = m,
                               !.league = [NoLeague EXCEPT !.id = 1,
                                                           !.owner_user_id = 1,
                                                           !.join_code = "AAAAAA",
                                                           !.matchupCount = k,
                                                           !.matchupFrequency = f,
                                                           !.created_at = t],
                               !.FAST_SCHEDULE = fast]
  /\ score = NoScore
  /\ stand = NoStand
  /\ fin = [h \in Handlers |-> NoFin]

\* calls of computeLeagueSchedule, and time passing between them
NextSchedule ==
  \/ ComputeSchedule
  \/ TickTo(DateTicks)

SpecSchedule == InitSchedule /\ [][NextSchedule]_vars

\* the entries of a round in which member u appears
EntriesOf(round, u) ==
  {i \in 1..Len(round) : u \in {round[i].homeUserId, round[i].awayUserId,
                                round[i].byeUserId}}

\* the base rounds in which members u and v meet
Meetings(base, u, v) ==
  {<<r, i>> \in (1..Len(base)) \X (1..MaxMembers) :
     /\ i <= Len(base[r])
     /\ {base[r][i].homeUserId, base[r][i].awayUserId} = {u, v}}

\* C20: for a roster of n >= 2 members, padded with BYE to N when n is odd, there
\* are N - 1 base rounds; in each of them every member appears in exactly one
\* entry, a matchup or a bye, and over them every two members meet exactly once;
\* 4 members get 3 rounds of 2 matchups.
C20_RoundRobin ==
  (sched.called /\ Len(sched.members) >= 2) =>
    LET members == {sched.members[i] : i \in 1..Len(sched.members)}
        n == Len(sched.members)
        N == IF n % 2 = 1 THEN n + 1 ELSE n
        base == sched.baseRoundMatchups
    IN /\ Len(base) = N - 1
       /\ \A r \in 1..Len(base) :
            /\ \A u \in members : Cardinality(EntriesOf(base[r], u)) = 1
            /\ \A i \in 1..Len(base[r]) :
                 \/ /\ base[r][i].byeUserId = BYE
                    /\ base[r][i].homeUserId \in members
                    /\ base[r][i].awayUserId \in members
                    /\ base[r][i].homeUserId # base[r][i].awayUserId
                 \/ /\ base[r][i].byeUserId \in members
                    /\ base[r][i].homeUserId = BYE /\ base[r][i].awayUserId = BYE
       /\ \A u, v \in members : u # v => Cardinality(Meetings(base, u, v)) = 1
       /\ n = 4 => \A r \in 1..3 : /\ Len(base[r]) = 2
                                   /\ \A i \in 1..2 : base[r][i].byeUserId = BYE
       /\ sched.league.matchupCount = NoValue =>
            /\ Len(sched.schedule) = N - 1
            /\ \A r \in 1..(N - 1) : sched.schedule[r].matchups = base[r]

\* the schedule of a league of 4 members: 3 rounds of 2 matchups
C20_Witness ==
  /\ sched.called /\ Len(sched.members) = 4 /\ sched.league.matchupCount = NoValue
  /\ Len(sched.schedule) = 3
  /\ \A r \in 1..3 : Len(sched.schedule[r].matchups) = 2

\* the bye entries of a round
Byes(round) == {i \in 1..Len(round) : round[i].byeUserId # BYE}

\* the base rounds in which member u sits out
SitsOut(base, u) ==
  {r \in 1..Len(base) : \E i \in Byes(base[r]) : base[r][i].byeUserId = u}

\* each round of 3 members has one bye entry, which is no matchup, and one matchup;
\* each member sits out once over the cycle rounds base rounds
ByePerRound(cycle) ==
  (sched.called /\ Len(sched.members) = 3) =>
    LET base == sched.baseRoundMatchups
    IN /\ Len(base) = cycle
       /\ \A r \in 1..Len(base) :
            /\ Cardinality(Byes(base[r])) = 1
            /\ \A i \in Byes(base[r]) :
                 base[r][i].homeUserId = BYE /\ base[r][i].awayUserId = BYE
       /\ \A r \in 1..Len(sched.schedule) :
            Cardinality(Byes(sched.schedule[r].matchups)) = 1
       /\ \A i \in 1..3 : Cardinality(SitsOut(base, sched.members[i])) = 1

\* C21 as written: with 3 members every round has exactly one BYE entry, no BYE
\* entry is a head-to-head matchup, and each member sits out exactly once across
\* the 2-round base cycle.
C21_ByePerRoundOfTwo == ByePerRound(2)

\* C21: with 3 members every round has exactly one BYE entry, no BYE entry is a
\* head-to-head matchup, and each member sits out exactly once across the base
\* cycle, which has 3 rounds.
C21_ByePerRoundOfThree == ByePerRound(3)

\* the schedule of a league of 3 members: 3 base rounds, the members sitting out in
\* turn
C21_Witness ==
  /\ sched.called /\ Len(sched.members) = 3
  /\ Len(sched.baseRoundMatchups) = 3
  /\ {sched.baseRoundMatchups[r][i].byeUserId :
        r \in 1..3, i \in 1..2} = {BYE} \cup {sched.members[i] : i \in 1..3}

\* the setting kept within lo..hi
Clamp(x, lo, hi) == IF x < lo THEN lo ELSE IF x > hi THEN hi ELSE x

\* C22: the rounds number the matchupCount setting, clamped to 1..1000, when the
\* league has one, else N - 1, N being the number of members padded to an even
\* number; the round of 0-based index r has the matchups of base round r mod (N - 1),
\* so a larger count repeats the base rounds and a smaller one cuts them short.
C22_RoundCount ==
  (sched.called /\ Len(sched.members) >= 2) =>
    LET n == Len(sched.members)
        N == IF n % 2 = 1 THEN n + 1 ELSE n
        k == sched.league.matchupCount
        base == sched.baseRoundMatchups
    IN /\ Len(sched.schedule) = IF k # NoValue THEN Clamp(k, 1, 1000) ELSE N - 1
       /\ \A i \in 1..Len(sched.schedule) :
            /\ sched.schedule[i].roundIndex = i
            /\ sched.schedule[i].matchups = base[((i - 1) % (N - 1)) + 1]

\* 4 members and a count above their 3 base rounds: round 4 repeats round 1
C22_Witness ==
  /\ sched.called /\ Len(sched.members) = 4
  /\ sched.league.matchupCount = 2 * MaxMembers
  /\ Len(sched.schedule) = 2 * MaxMembers
  /\ sched.schedule[4].matchups = sched.schedule[1].matchups
  /\ sched.schedule[2].matchups # sched.schedule[1].matchups

\* a day and a minute in clock ticks
DayTicks == 24 * 60 * MinuteTicks

\* round i of the schedule starts (i - 1) intervals after origin and ends a
\* millisecond before the next round starts
RoundTimes(origin, interval) ==
  /\ \A i \in 1..Len(sched.schedule) :
       /\ sched.schedule[i].start = origin + (i - 1) * interval
       /\ sched.schedule[i].end = sched.schedule[i].start + interval - DateTicks
  /\ \A i \in 1..(Len(sched.schedule) - 1) :
       /\ sched.schedule[i].end < sched.schedule[i + 1].start
       /\ sched.schedule[i + 1].start = sched.schedule[i].end + DateTicks

\* C23 as written: round r (from 0) starts at the league's creation time plus r
\* intervals and ends one millisecond before the next interval, the interval being
\* 1 day for a DAILY league and 7 days for a WEEKLY one; so the rounds do not
\* overlap and each starts a millisecond after the one before it ends.
C23_RoundTimesByFrequency ==
  sched.called =>
    RoundTimes(sched.league.created_at,
               IF sched.league.matchupFrequency = "DAILY" THEN DayTicks
               ELSE 7 * DayTicks)

\* C23: round r (from 0) starts at the league's creation time, in the whole
\* milliseconds the row is read in, plus r intervals and ends one millisecond before
\* the next interval, the interval being 5 minutes when FAST_SCHEDULE is set and
\* else 1 day for a DAILY league and 7 days for a WEEKLY one; so the rounds do not
\* overlap and each starts a millisecond after the one before it ends.
C23_RoundTimes ==
  sched.called =>
    RoundTimes(toDate(sched.league.created_at),
               IF sched.FAST_SCHEDULE THEN 5 * MinuteTicks
               ELSE IF sched.league.matchupFrequency = "DAILY" THEN DayTicks
               ELSE 7 * DayTicks)

\* a DAILY league without FAST_SCHEDULE: the second round starts a day after the
\* first
C23_Witness ==
  /\ sched.called /\ ~sched.FAST_SCHEDULE /\ sched.league.matchupFrequency = "DAILY"
  /\ Len(sched.schedule) >= 2
  /\ sched.schedule[2].start = sched.schedule[1].start + DayTicks
  /\ sched.schedule[1].end = sched.schedule[2].start - DateTicks

\* C24: computeLeagueSchedule writes nothing, and two calls with the same league row
\* and the same members in the same order return the same rounds, times and
\* matchups, whatever the time of each call and whatever happened between them.
C24_ScheduleDeterministic ==
  [][/\ sched' # sched =>
          UNCHANGED <<leagues, portfolios, holdings, trades, prices_latest,
                      price_points_min, nextLeagueId, tx, session>>
     /\ sched'.n = 2 => sched'.schedule = sched'.prev]_vars

\* two calls a millisecond or more apart that return a schedule of several rounds
C24_Witness ==
  /\ sched.n = 2
  /\ toDate(sched.at[1]) # toDate(sched.at[2])
  /\ Len(sched.schedule) >= 2
  /\ sched.schedule = sched.prev

\* ------------------------------------------------------------ matchup scores
\* Matchups of a league of users 1 and 2 with two rounds, scored before, during and
\* after each round, over the trade tables and minute buckets the program can have
\* built by then.  interval is the length of a round.
ScoreCalls == 1

\* the start of round 1, an instant within it, its last millisecond and the middle
\* of that, the start of round 2, an instant within it and the start of a third
ScoreTimes(interval) ==
  {0, 2 * DateTicks, interval - DateTicks, interval - 1, interval,
   interval + 2 * DateTicks, 2 * interval}

ScoreTradeRows(interval, upTo) ==
  {[user_id |-> u, league_id |-> 1, symbol |-> "bitcoin", side |-> sd, qty |-> 1,
    price_usd |-> 60000 * CashScale, cost_usd |-> RoundDiv(60000 * CashScale, QtyScale),
    created_at |-> t] :
     u \in PairUsers, sd \in {"BUY", "SELL"},
     t \in {x \in {DateTicks + 1, interval + DateTicks + 1} : x <= upTo}}

\* the rows in the order of their insertion
ScoreTradeTables(interval, upTo) ==
  {tb \in UNION {[1..n -> ScoreTradeRows(interval, upTo)] : n \in 0..MaxTrades} :
     \A i, j \in 1..Len(tb) : i < j => tb[i].created_at <= tb[j].created_at}

ScoreBuckets(interval, upTo) ==
  {B \in SUBSET {[symbol |-> "bitcoin", ts_min |-> t, price_usd |-> p] :
                   t \in {x \in {0, TruncMinute(interval)} : x <= upTo},
                   p \in FeedPrices} :
     \A x, y \in B : x.ts_min = y.ts_min => x = y}

ScoreLeague ==
  [NoLeague EXCEPT !.id = 1, !.owner_user_id = 1, !.join_code = "AAAAAA",
                   !.matchupCount = 2]

InitScore ==
  /\ leagues = {ScoreLeague}
  /\ portfolios = {[user_id |-> u, league_id |-> 1, cash_usd |-> InitialCash,
                    created_at |-> 0] : u \in PairUsers}
  /\ holdings = {}
  /\ \E fast \in BOOLEAN :
       /\ sched = [NoSched EXCEPT !.FAST_SCHEDULE = fast]
       /\ \E t \in ScoreTimes(intervalMs(ScoreLeague, fast)) :
            /\ now = t
            /\ trades \in ScoreTradeTables(intervalMs(ScoreLeague, fast), t)
            /\ price_points_min \in ScoreBuckets(intervalMs(ScoreLeague, fast), t)
  /\ prices_latest = {[symbol |-> "bitcoin", price_usd |-> 60000 * CashScale]}
  /\ nextLeagueId = 2
  /\ tx = [c \in Conns |-> NoTx]
  /\ session = [u \in AllUsers |-> IF u \in PairUsers THEN 1 ELSE 0]
  /\ req = [r \in Slots |-> NoReq]
  /\ poller = NoPoll
  /\ nreq = 0
  /\ last = LogEntry0
  /\ log = <<>>
  /\ applied = {}
  /\ val = NoVal
  /\ score = NoScore
  /\ stand = NoStand
  /\ fin = [h \in Handlers |-> NoFin]

NextScore ==
  \/ ScoreStart(ScoreCalls)
  \/ \E c \in Conns : ScoreValue(c)
  \/ ScoreReturn
  \/ Pass(ScoreTimes(intervalMs(ScoreLeague, sched.FAST_SCHEDULE)))

SpecScore == InitScore /\ [][NextScore]_vars

\* the values getPortfolioValueAtTime can return for a portfolio at asOf
ValuesAt(userId, leagueId, asOf) ==
  {getPortfolioValueAtTime(rows, asOf).totalValue :
     rows \in getTradesIn(trades, userId, leagueId)}

\* C25: each side's profit is its totalValue at effectiveEnd minus its totalValue
\* at the start of the round, effectiveEnd being the earlier of the instant of the
\* call and the end of the round: a round that has ended is scored at its end, a
\* round in progress at the instant of the call, and no valuation of a round is
\* asked for an instant after its end.
C25_ScoredUpToEffectiveEnd ==
  /\ score.pc # "idle" =>
       /\ score.effectiveEnd = IF score.at < score.round.end THEN score.at
                               ELSE score.round.end
       /\ score.asOf["homeStart"] = score.round.start
       /\ score.asOf["awayStart"] = score.round.start
       /\ score.asOf["homeEnd"] = score.effectiveEnd
       /\ score.asOf["awayEnd"] = score.effectiveEnd
       /\ \A v \in ScoreValues : score.asOf[v] <= score.round.end
  /\ score.out.n > 0 =>
       LET out == score.out
       IN /\ out.effectiveEnd = IF out.at < out.end THEN out.at ELSE out.end
          /\ out.home.startValue \in ValuesAt(out.home.userId, out.leagueId, out.start)
          /\ out.home.endValue
               \in ValuesAt(out.home.userId, out.leagueId, out.effectiveEnd)
          /\ out.away.startValue \in ValuesAt(out.away.userId, out.leagueId, out.start)
          /\ out.away.endValue
               \in ValuesAt(out.away.userId, out.leagueId, out.effectiveEnd)
          /\ out.home.profit = out.home.endValue - out.home.startValue
          /\ out.away.profit = out.away.endValue - out.away.startValue

\* a round in progress is scored at the instant of the call with a profit other
\* than 0
C25_Witness ==
  /\ score.out.n > 0
  /\ score.out.start < score.out.at /\ score.out.at < score.out.end
  /\ score.out.effectiveEnd = score.out.at
  /\ score.out.home.profit # 0

\* ------------------------------------------------------------ matchup results
\* The decision of scoreHeadToHeadMatchup on its own: the four valuations have
\* returned values on a grid finer than EPS, EpsUnits units of it making 0.0001 USD.
EpsUnits == 2
DecideValues == 0..(2 * EpsUnits)

InitDecide ==
  /\ leagues = {ScoreLeague}
  /\ portfolios = {[user_id |-> u, league_id |-> 1, cash_usd |-> InitialCash,
                    created_at |-> 0] : u \in PairUsers}
  /\ holdings = {}
  /\ trades = <<>>
  /\ prices_latest = {}
  /\ price_points_min = {}
  /\ nextLeagueId = 2
  /\ tx = [c \in Conns |-> NoTx]
  /\ session = [u \in AllUsers |-> IF u \in PairUsers THEN 1 ELSE 0]
  /\ req = [r \in Slots |-> NoReq]
  /\ poller = NoPoll
  /\ now = 0
  /\ nreq = 0
  /\ last = LogEntry0
  /\ log = <<>>
  /\ applied = {}
  /\ val = NoVal
  /\ sched = NoSched
  /\ \E v \in [ScoreValues -> DecideValues] :
       score = [NoScore EXCEPT !.pc = "return", !.n = 1, !.leagueId = 1,
                               !.homeUserId = 1, !.awayUserId = 2,
                               !.scale = EpsUnits * 10000, !.totalValue = v]
  /\ stand = NoStand
  /\ fin = [h \in Handlers |-> NoFin]

NextDecide == ScoreReturn

SpecDecide == InitDecide /\ [][NextDecide]_vars

\* the whole number x of units of out is more than EPS = 0.0001 USD from 0
Beyond(x, out) == x > out.scale \div 10000 \/ x < 0 - (out.scale \div 10000)

\* C26: when the profits differ by more than EPS the side with the greater profit
\* wins; otherwise, when the end values differ by more than EPS, the side with the
\* greater end value wins; otherwise the result is TIE and there is no winner.  A
\* winner is reported exactly when the result is HOME_WIN or AWAY_WIN, and it is one
\* of the two sides.
C26_Decision ==
  score.out.n > 0 =>
    LET out == score.out
        profitDiff == out.home.profit - out.away.profit
        endDiff == out.home.endValue - out.away.endValue
        decided == IF Beyond(profitDiff, out) THEN profitDiff
                   ELSE IF Beyond(endDiff, out) THEN endDiff
                   ELSE 0
    IN /\ decided > 0 => out.result = "HOME_WIN" /\ out.winnerUserId = out.home.userId
       /\ decided < 0 => out.result = "AWAY_WIN" /\ out.winnerUserId = out.away.userId
       /\ decided = 0 => out.result = "TIE" /\ out.winnerUserId = 0
       /\ out.winnerUserId # 0 <=> out.result \in {"HOME_WIN", "AWAY_WIN"}
       /\ out.winnerUserId \in {0, out.home.userId, out.away.userId}
       /\ out.result \in {"HOME_WIN", "AWAY_WIN", "TIE"}

\* the home side's profit greater by less than EPS, and the away side ahead at the
\* end by more than EPS: the away side wins
C26_Witness ==
  /\ score.out.n > 0
  /\ score.out.home.profit - score.out.away.profit \in 1..(EpsUnits - 1)
  /\ score.out.away.endValue - score.out.home.endValue > EpsUnits
  /\ score.out.result = "AWAY_WIN"

\* ------------------------------------------------------------ league standings
\* The standings of a league of the three users, whose schedule has three rounds of
\* one matchup and one bye, computed at the end of each round and later, over the
\* trade tables and minute buckets the program can have built by then.
StandCalls == 1

\* the start of round 1, the last millisecond of each round and the start of a
\* fourth
StandTimes(interval) ==
  {0, interval - DateTicks, 2 * interval - DateTicks, 3 * interval - DateTicks,
   3 * interval}

\* a trade within each round
StandTradeRows(interval, upTo) ==
  {[user_id |-> u, league_id |-> 1, symbol |-> "bitcoin", side |-> sd, qty |-> 1,
    price_usd |-> 60000 * CashScale, cost_usd |-> RoundDiv(60000 * CashScale, QtyScale),
    created_at |-> t] :
     u \in AllUsers, sd \in {"BUY", "SELL"},
     t \in {x \in {DateTicks + 1, interval + DateTicks + 1,
                   2 * interval + DateTicks + 1} : x <= upTo}}

\* the rows in the order of their insertion
StandTradeTables(interval, upTo) ==
  {tb \in UNION {[1..n -> StandTradeRows(interval, upTo)] : n \in 0..MaxTrades} :
     \A i, j \in 1..Len(tb) : i < j => tb[i].created_at <= tb[j].created_at}

StandBuckets ==
  {B \in SUBSET {[symbol |-> "bitcoin", ts_min |-> 0, price_usd |-> p] :
                   p \in FeedPrices} : Cardinality(B) <= 1}

StandLeague ==
  [NoLeague EXCEPT !.id = 1, !.owner_user_id = 1, !.join_code = "AAAAAA"]

InitStandings ==
  /\ leagues = {StandLeague}
  /\ portfolios = {[user_id |-> u, league_id |-> 1, cash_usd |-> InitialCash,
                    created_at |-> 0] : u \in AllUsers}
  /\ holdings = {}
  /\ \E fast \in BOOLEAN :
       /\ sched = [NoSched EXCEPT !.FAST_SCHEDULE = fast]
       /\ \E t \in StandTimes(intervalMs(StandLeague, fast)) :
            /\ now = t
            /\ trades \in StandTradeTables(intervalMs(StandLeague, fast), t)
  /\ price_points_min \in StandBuckets
  /\ prices_latest = {[symbol |-> "bitcoin", price_usd |-> 60000 * CashScale]}
  /\ nextLeagueId = 2
  /\ tx = [c \in Conns |-> NoTx]
  /\ session = [u \in AllUsers |-> 1]
  /\ req = [r \in Slots |-> NoReq]
  /\ poller = NoPoll
  /\ nreq = 0
  /\ last = LogEntry0
  /\ log = <<>>
  /\ applied = {}
  /\ val = NoVal
  /\ score = NoScore
  /\ stand = NoStand
  /\ fin = [h \in Handlers |-> NoFin]

NextStandings ==
  \/ StandStart(StandCalls)
  \/ StandNext
  \/ \E c \in Conns : ScoreValue(c)
  \/ ScoreReturn
  \/ StandFold
  \/ StandReturn
  \/ Pass(StandTimes(intervalMs(StandLeague, sched.FAST_SCHEDULE)))

SpecStandings == InitStandings /\ [][NextStandings]_vars

\* the sum of f(scores[j]) over the scores
RECURSIVE SumScores(_, _, _)
SumScores(f(_), scores, j) ==
  IF j = 0 THEN 0 ELSE SumScores(f, scores, j - 1) + f(scores[j])

\* u is a side of the scored matchup sc
SideOf(u, sc) == u \in {sc.home.userId, sc.away.userId}

\* the entries of the rounds of schedule that have ended by asOf: <<round, entry>>
CountedEntries(schedule, asOf) ==
  {<<r, k>> \in (1..Len(schedule)) \X (1..MaxMembers) :
     /\ schedule[r].end <= asOf
     /\ k <= Len(schedule[r].matchups)}

\* C27: the standings count exactly the rounds of the schedule whose end is <= asOf:
\* each of their head-to-head entries is scored once and no other is; a bye entry
\* adds 1 to the byes of its member and nothing else; a scored matchup adds 1 game
\* to both sides, each side's profit to its pointsFor and to the other side's
\* pointsAgainst, and a win and a loss, or a tie to each.
C27_StandingsFold ==
  stand.out.n > 0 =>
    LET out == stand.out
        entries == CountedEntries(out.schedule, out.asOf)
        matchups == {e \in entries :
                       out.schedule[e[1]].matchups[e[2]].byeUserId = BYE}
        n == Len(out.scores)
        count(P(_)) == SumScores(LAMBDA sc : IF P(sc) THEN 1 ELSE 0, out.scores, n)
    IN /\ n = Cardinality(matchups)
       /\ {<<out.scores[j].roundIndex, out.scores[j].home.userId,
             out.scores[j].away.userId>> : j \in 1..n}
            = {<<out.schedule[e[1]].roundIndex,
                 out.schedule[e[1]].matchups[e[2]].homeUserId,
                 out.schedule[e[1]].matchups[e[2]].awayUserId>> : e \in matchups}
       /\ DOMAIN out.map = {out.members[j] : j \in 1..Len(out.members)}
       /\ \A u \in DOMAIN out.map :
            LET e == out.map[u]
            IN /\ e.userId = u
               /\ e.byes = Cardinality({x \in entries :
                             out.schedule[x[1]].matchups[x[2]].byeUserId = u})
               /\ e.games = count(LAMBDA sc : SideOf(u, sc))
               /\ e.wins = count(LAMBDA sc : SideOf(u, sc) /\ sc.winnerUserId = u)
               /\ e.losses = count(LAMBDA sc : SideOf(u, sc)
                                               /\ sc.winnerUserId \notin {0, u})
               /\ e.ties = count(LAMBDA sc : SideOf(u, sc) /\ sc.winnerUserId = 0)
               /\ e.pointsFor =
                    SumScores(LAMBDA sc : IF sc.home.userId = u THEN sc.home.profit
                                          ELSE IF sc.away.userId = u
                                          THEN sc.away.profit ELSE 0,
                              out.scores, n)
               /\ e.pointsAgainst =
                    SumScores(LAMBDA sc : IF sc.home.userId = u THEN sc.away.profit
                                          ELSE IF sc.away.userId = u
                                          THEN sc.home.profit ELSE 0,
                              out.scores, n)

\* standings at the end of round 2 of 3: two matchups scored, one of them won, two
\* members with a bye, and the third round left out
C27_Witness ==
  /\ stand.out.n > 0
  /\ Len(stand.out.schedule) = 3
  /\ stand.out.asOf = stand.out.schedule[2].end
  /\ Len(stand.out.scores) = 2
  /\ \E u \in DOMAIN stand.out.map :
       stand.out.map[u].wins = 1 /\ stand.out.map[u].pointsFor # 0
  /\ Cardinality({u \in DOMAIN stand.out.map : stand.out.map[u].byes = 1}) = 2

\* entry a of the standings is not behind entry b in the order of the ranking
RanksBefore(a, b) ==
  \/ a.wins > b.wins
  \/ /\ a.wins = b.wins
     /\ \/ a.pointDiff > b.pointDiff
        \/ /\ a.pointDiff = b.pointDiff
           /\ \/ a.pointsFor > b.pointsFor
              \/ a.pointsFor = b.pointsFor /\ a.username <= b.username

FinCalls == 1
FinJoins == 1

\* the last two milliseconds of the only round of a league of two, and the last
\* millisecond of the third round of a league of three
FinTimes(interval) ==
  {interval - 2 * DateTicks, interval - DateTicks, 3 * interval - DateTicks}

\* at most one purchase, within the first round
FinTradeTables(interval, upTo) ==
  {tb \in StandTradeTables(interval, upTo) :
     /\ Len(tb) <= 1
     /\ \A i \in 1..Len(tb) : tb[i].side = "BUY" /\ tb[i].created_at = DateTicks + 1}

\* a league of up to three members that user 1 created with users 1 and 2 in it
FinLeague ==
  [NoLeague EXCEPT !.id = 1, !.owner_user_id = 1, !.join_code = "AAAAAA",
                   !.member_limit = 3, !.matchupFrequency = "DAILY"]

InitComplete ==
  /\ leagues = {FinLeague}
  /\ portfolios = {[user_id |-> u, league_id |-> 1, cash_usd |-> InitialCash,
                    created_at |-> 0] : u \in {1, 2}}
  /\ holdings = {}
  /\ \E fast \in BOOLEAN :
       /\ sched = [NoSched EXCEPT !.FAST_SCHEDULE = fast]
       /\ now = intervalMs(FinLeague, fast) - 2 * DateTicks
       /\ trades \in FinTradeTables(intervalMs(FinLeague, fast), now)
  /\ price_points_min \in StandBuckets
  /\ prices_latest = {[symbol |-> "bitcoin", price_usd |-> 60000 * CashScale]}
  /\ nextLeagueId = 2
  /\ tx = [c \in Conns |-> NoTx]
  /\ session = [u \in AllUsers |-> IF u \in {1, 2} THEN 1 ELSE 0]
  /\ req = [r \in Slots |-> NoReq]
  /\ poller = NoPoll
  /\ nreq = 0
  /\ last = LogEntry0
  /\ log = <<>>
  /\ applied = {}
  /\ val = NoVal
  /\ score = NoScore
  /\ stand = NoStand
  /\ fin = [h \in Handlers |-> NoFin]

\* completion requests, handled concurrently with each other and with joins, while
\* time passes
NextComplete ==
  \/ \E h \in Handlers : FinStart(h, {1, 2}, {NoValue, 2}, FinCalls)
  \/ \E h \in Handlers, c \in Conns : FinGetLeague(h, c)
  \/ \E h \in Handlers, c \in Conns : FinGetMembers(h, c)
  \/ \E h \in Handlers : FinStandings(h)
  \/ StandNext
  \/ \E c \in Conns : ScoreValue(c)
  \/ ScoreReturn
  \/ StandFold
  \/ StandReturn
  \/ \E h \in Handlers, c \in Conns : FinFinalize(h, c)
  \/ \E r \in Slots : StartJoinBy(r, {3}, {"AAAAAA"}, FinJoins)
  \/ \E r \in Slots, c \in Conns : JoinStep(r, c)
  \/ Pass(FinTimes(intervalMs(FinLeague, sched.FAST_SCHEDULE)))

SpecComplete == InitComplete /\ [][NextComplete]_vars

\* the step in which handler h finalizes league id
Finalizes(h, id) ==
  /\ fin[h].pc = "await" /\ fin[h].leagueId = id
  /\ fin'[h].pc = "idle" /\ fin'[h].res.status = 200

\* every round of the schedule of league l has ended by the time clock
SeasonOver(l, clock) ==
  LET schedule == computeLeagueSchedule(l, membersOf(portfolios, l.id),
                                        sched.FAST_SCHEDULE, clock)
  IN /\ schedule # <<>>
     /\ \A i \in 1..Len(schedule) : schedule[i].end <= clock

\* C29: a league becomes COMPLETED only in the finalizing step of a completion
\* request, and only at an instant at which its schedule is not empty and every
\* round of it has ended; its stored winner is then the first entry of the
\* standings the request computed; a request rejected because the season is not
\* finished leaves the leagues as they were.
C29_CompletedOnlyWhenSeasonOver ==
  [][/\ \A l \in leagues, m \in leagues' :
          (m.id = l.id /\ l.status # "COMPLETED" /\ m.status = "COMPLETED")
            => /\ \E h \in Handlers : Finalizes(h, l.id)
               /\ SeasonOver(l, now)
               /\ stand.out.standings # <<>>
               /\ m.winner_user_id = stand.out.standings[1].userId
     /\ \A l \in leagues' : l.status = "COMPLETED" => \E k \in leagues : k.id = l.id
     /\ \A h \in Handlers :
          (fin[h].pc = "getMembers" /\ fin'[h].pc = "idle"
           /\ fin'[h].res.error = "Season is not finished yet")
            => leagues' = leagues]_vars


ChampionCalls == 2

\* the owner completes the league, user 3 joins it and the standings are asked
\* for, while time passes.  One computation of the standings runs at a time
NextChampion ==
  \/ FinStart(1, {1}, {NoValue}, FinCalls)
  \/ \E c \in Conns : FinGetLeague(1, c)
  \/ \E c \in Conns : FinGetMembers(1, c)
  \/ FinStandings(1)
  \/ (fin[1].pc # "await" /\ StandStart(ChampionCalls))
  \/ StandNext
  \/ \E c \in Conns : ScoreValue(c)
  \/ ScoreReturn
  \/ StandFold
  \/ StandReturn
  \/ \E c \in Conns : FinFinalize(1, c)
  \/ \E r \in Slots : StartJoinBy(r, {3}, {"AAAAAA"}, FinJoins)
  \/ \E r \in Slots, c \in Conns : JoinStep(r, c)
  \/ Pass(FinTimes(intervalMs(FinLeague, sched.FAST_SCHEDULE)))

SpecChampion == InitComplete /\ [][NextChampion]_vars

\* C31: when GET /api/leagues/standings answers for a league whose row it read as
\* COMPLETED, the champion it reports is the member stored as the league's winner.
C31_StoredChampion ==
  (/\ stand.pc = "idle" /\ stand.out.n > 0
   /\ stand.out.via = "standings"
   /\ stand.out.league.status = "COMPLETED")
    => /\ Len(stand.out.champion) = 1
       /\ stand.out.champion[1].userId = stand.out.league.winner_user_id


\* ------------------------------------------------------------ round trips
\* entry i of the log is a successful BUY and entry i + 1 the next request, a SELL
\* of the same quantity of the same asset in the same portfolio at the same price
BuyThenSell(i) ==
  /\ log[i].kind = "trade" /\ log[i].sideU = "BUY" /\ log[i].status = 200
  /\ log[i + 1].kind = "trade" /\ log[i + 1].sideU = "SELL"
  /\ log[i + 1].rid = log[i].rid + 1
  /\ log[i + 1].user = log[i].user /\ log[i + 1].leagueId = log[i].leagueId
  /\ log[i + 1].coinId = log[i].coinId
  /\ log[i + 1].qty = log[i].qty /\ log[i + 1].px = log[i].px

\* C32: a successful BUY of q at price p immediately followed by a SELL of q at the
\* same price p succeeds and returns the cash and the holding (no row, if there was
\* none) to what they were before the BUY, and each of the two appends one row to
\* the trade log.
C32_BuySellRoundTrip ==
  \A i \in 1..(Len(log) - 1) :
    BuyThenSell(i)
      => /\ log[i + 1].status = 200
         /\ log[i + 1].postCash = log[i].preCash
         /\ log[i + 1].postQty = log[i].preQty
         /\ Len(log[i].added) = 1 /\ Len(log[i + 1].added) = 1


\* ------------------------------------------------------------ small rosters
\* POST /api/leagues of user 1 has inserted the league, with or without a matchup
\* count, and is about to insert its owner's portfolio: the league has no member
InitRoster ==
  /\ \E k \in ScheduleMatchupCounts, f \in ScheduleFrequencies :
       /\ leagues = {[NoLeague EXCEPT !.id = 1, !.owner_user_id = 1,
                                      !.join_code = "AAAAAA", !.matchupCount = k,
                                      !.matchupFrequency = f]}
       /\ req = [r \in Slots |->
                   IF r = 1
                   THEN [NoReq EXCEPT !.kind = "createLeague", !.rid = 1, !.user = 1,
                                      !.pc = "createEnsurePortfolio", !.leagueId = 1,
                                      !.joinCode = "AAAAAA", !.memberLimit = NoValue,
                                      !.matchupCount = k, !.matchupFrequency = f]
                   ELSE NoReq]
  /\ portfolios = {}
  /\ holdings = {}
  /\ trades = <<>>
  /\ \E fast \in BOOLEAN : sched = [NoSched EXCEPT !.FAST_SCHEDULE = fast]
  /\ now = 0
  /\ price_points_min = {}
  /\ prices_latest = {}
  /\ nextLeagueId = 2
  /\ tx = [c \in Conns |-> NoTx]
  /\ session = [u \in AllUsers |-> 0]
  /\ poller = NoPoll
  /\ nreq = 1
  /\ last = LogEntry0
  /\ log = <<>>
  /\ applied = {<<1, "league">>}
  /\ val = NoVal
  /\ score = NoScore
  /\ stand = NoStand
  /\ fin = [h \in Handlers |-> NoFin]

\* the owner's portfolio is inserted, before or after the owner asks for the
\* completion of the league, while time passes
NextRoster ==
  \/ \E c \in Conns : CreateEnsurePortfolio(1, c)
  \/ \E h \in Handlers : FinStart(h, {1}, {NoValue, 1}, FinCalls)
  \/ \E h \in Handlers, c \in Conns : FinGetLeague(h, c)
  \/ \E h \in Handlers, c \in Conns : FinGetMembers(h, c)
  \/ Pass(FinTimes(intervalMs(FinLeague, sched.FAST_SCHEDULE)))

SpecRoster == InitRoster /\ [][NextRoster]_vars

\* the number of members of league id
RosterSize(id) == Len(membersOf(portfolios, id))

\* the completion request of handler h gets its members and is rejected with error
RejectedAtMembers(h, error) ==
  /\ fin'[h].pc = "idle" /\ fin'[h].res.status = 400 /\ fin'[h].res.error = error
  /\ leagues' = leagues

\* C33 as written: a league with fewer than 2 members has an empty schedule,
\* whatever its settings, and a completion request on it is rejected with 'League
\* has no schedule to complete'.
C33_NoScheduleToComplete ==
  [][/\ \A l \in leagues :
          RosterSize(l.id) < 2
            => computeLeagueSchedule(l, membersOf(portfolios, l.id),
                                     sched.FAST_SCHEDULE, now) = <<>>
     /\ \A h \in Handlers :
          (fin[h].pc = "getMembers" /\ fin'[h] # fin[h]
           /\ RosterSize(fin[h].leagueId) < 2)
            => RejectedAtMembers(h, "League has no schedule to complete")]_vars

\* C33: a league with fewer than 2 members has an empty schedule, whatever its
\* settings, and a completion request on it is rejected: with 'League has no
\* members' if it has none, with 'League has no schedule to complete' if it has
\* one.
C33_SmallRosterRejected ==
  [][/\ \A l \in leagues :
          RosterSize(l.id) < 2
            => computeLeagueSchedule(l, membersOf(portfolios, l.id),
                                     sched.FAST_SCHEDULE, now) = <<>>
     /\ \A h \in Handlers :
          (fin[h].pc = "getMembers" /\ fin'[h] # fin[h]
           /\ RosterSize(fin[h].leagueId) < 2)
            => RejectedAtMembers(h, IF RosterSize(fin[h].leagueId) = 0
                                    THEN "League has no members"
                                    ELSE "League has no schedule to complete")]_vars

C33_Witness ==
  /\ \E l \in leagues : l.matchupCount > 0 /\ RosterSize(l.id) = 1
  /\ \E h \in Handlers :
       /\ fin[h].pc = "idle"
       /\ fin[h].res.error = "League has no schedule to complete"
  /\ now > 0


\* ------------------------------------------------------------ the price store
PollerMinutes == 2

\* the store is empty when the poller starts
InitPoller ==
  /\ leagues = {}
  /\ portfolios = {}
  /\ holdings = {}
  /\ trades = <<>>
  /\ prices_latest = {}
  /\ price_points_min = {}
  /\ nextLeagueId = 1
  /\ tx = [c \in Conns |-> NoTx]
  /\ session = [u \in AllUsers |-> 0]
  /\ req = [r \in Slots |-> NoReq]
  /\ poller = NoPoll
  /\ now = 0
  /\ nreq = 0
  /\ last = LogEntry0
  /\ log = <<>>
  /\ applied = {}
  /\ val = NoVal
  /\ sched = NoSched
  /\ score = NoScore
  /\ stand = NoStand
  /\ fin = [h \in Handlers |-> NoFin]

\* the ticks of the poller over PollerMinutes minutes and the start of the next
NextPoller ==
  \/ PollLatest
  \/ PollMinute
  \/ TickTo(PollerMinutes * MinuteTicks)

SpecPoller == InitPoller /\ [][NextPoller]_vars

\* C34: prices_latest has at most one row per asset and a tick with a price leaves
\* that price in it; price_points_min has at most one row per asset and minute, a
\* write to a bucket that has a row changes nothing, and no row of it is ever
\* changed or deleted.
C34_PriceStore ==
  [][/\ \A x, y \in prices_latest' : x.symbol = y.symbol => x = y
     /\ (poller.pc = "latest" /\ poller'.pc = "minute")
          => [symbol |-> poller'.symbol, price_usd |-> poller'.price]
               \in prices_latest'
     /\ \A x, y \in price_points_min' :
          (x.symbol = y.symbol /\ x.ts_min = y.ts_min) => x = y
     /\ price_points_min \subseteq price_points_min'
     /\ (/\ poller.pc = "minute" /\ poller'.pc = "latest"
         /\ \E x \in price_points_min :
              x.symbol = poller.symbol /\ x.ts_min = TruncMinute(now))
          => price_points_min' = price_points_min]_vars

\* the poller has written a second, different price within a minute: the latest
\* price is the second, the minute's bucket holds the first
C34_Witness ==
  /\ poller.pc = "latest"
  /\ now >= MinuteTicks
  /\ \E x \in price_points_min, y \in prices_latest :
       /\ x.symbol = y.symbol /\ x.ts_min = TruncMinute(now)
       /\ x.price_usd # y.price_usd


\* ------------------------------------------------------------ the cash floor
\* C35: in every reachable state the cash of every portfolio, stored or written by
\* a transaction that has not committed yet, is at least zero.
C35_CashNeverNegative ==
  /\ \A p \in portfolios : p.cash_usd >= 0
  /\ \A c \in Conns : \A p \in tx[c].pP : p.cash_usd >= 0

\* a BUY has been paid and a later BUY that costs more than the cash left has
\* been refused
C35_Witness ==
  /\ last.kind = "trade" /\ last.sideU = "BUY" /\ last.err = "insufficient cash"
  /\ \E p \in portfolios :
       /\ p.user_id = last.user /\ p.league_id = last.leagueId
       /\ p.cash_usd < InitialCash
       /\ p.cash_usd < last.cost


\* ------------------------------------------------------- values of the past
\* User 1 bought a coin at time 0 at the price the poller had stored; the clock
\* has since passed the first minute.  The bucket of minute 0 is written, or the
\* poller is between its two statements.  Valuations of the portfolio as of the
\* instants before the start are asked for while the poller goes on and the clock
\* passes.
StableStart == MinuteTicks + 1
StableAsOfs == {toDate(t) : t \in 0..(StableStart - 1)}

StablePrice == 60000 * CashScale

InitStable ==
  /\ leagues = {[id |-> 1, owner_user_id |-> 1, join_code |-> "AAAAAA",
                 member_limit |-> NoValue, matchupCount |-> NoValue,
                 matchupFrequency |-> "WEEKLY", created_at |-> 0, status |-> "ACTIVE",
                 winner_user_id |-> 0, completed_at |-> 0]}
  /\ portfolios = {[user_id |-> 1, league_id |-> 1,
                    cash_usd |-> InitialCash - StablePrice, created_at |-> 0]}
  /\ holdings = {[user_id |-> 1, league_id |-> 1, symbol |-> "bitcoin",
                  qty |-> QtyScale]}
  /\ trades = <<[user_id |-> 1, league_id |-> 1, symbol |-> "bitcoin", side |-> "BUY",
                 qty |-> QtyScale, price_usd |-> StablePrice, cost_usd |-> StablePrice,
                 created_at |-> 0]>>
  /\ prices_latest = {[symbol |-> "bitcoin", price_usd |-> StablePrice]}
  /\ \/ /\ price_points_min = {[symbol |-> "bitcoin", ts_min |-> 0,
                                price_usd |-> StablePrice]}
        /\ poller = NoPoll
     \/ /\ price_points_min = {}
        /\ poller = [pc |-> "minute", symbol |-> "bitcoin", price |-> StablePrice]
  /\ nextLeagueId = 2
  /\ tx = [c \in Conns |-> NoTx]
  /\ session = [u \in AllUsers |-> IF u = 1 THEN 1 ELSE 0]
  /\ req = [r \in Slots |-> NoReq]
  /\ now = StableStart
  /\ nreq = 1
  /\ last = LogEntry0
  /\ log = <<>>
  /\ applied = {<<1, "league">>, <<1, "portfolio">>}
  /\ val = NoVal
  /\ sched = NoSched
  /\ score = NoScore
  /\ stand = NoStand
  /\ fin = [h \in Handlers |-> NoFin]

NextStable ==
  \/ ValueStart({1}, StableAsOfs, ValueCalls)
  \/ \E c \in Conns : ValueStep(c)
  \/ PollLatest
  \/ PollMinute
  \/ TickTo(StableStart + 1)

SpecStable == InitStable /\ [][NextStable]_vars

\* C36: two valuations of a portfolio as of the same instant, an instant before
\* the first of them was asked for, give the same value.
C36_PastValueStable ==
  (/\ val.prev.n > 0 /\ val.out.n > 0
   /\ val.prev.userId = val.out.userId /\ val.prev.leagueId = val.out.leagueId
   /\ val.prev.asOf = val.out.asOf
   /\ val.out.asOf < StableStart)
    => val.prev.totalValue = val.out.totalValue


\* ------------------------------------------------------- conservation
\* the sum of field f of the entries of map
SumEntries(map, f(_)) ==
  SumOver([u \in DOMAIN map |-> f(map[u])], DOMAIN map)

\* C37: in every result of computeLeagueStandings each member's games are its wins,
\* losses and ties together; over the members the wins are as many as the losses,
\* the ties are an even number, and the unrounded pointsFor add up to the unrounded
\* pointsAgainst; a step that counts a bye changes no entry's wins, losses, ties,
\* games or points.
C37_StandingsConservative ==
  [][/\ stand'.out.n > 0 =>
          LET map == stand'.out.map
          IN /\ \A u \in DOMAIN map :
                  map[u].games = map[u].wins + map[u].losses + map[u].ties
             /\ SumEntries(map, LAMBDA e : e.wins) = SumEntries(map, LAMBDA e : e.losses)
             /\ SumEntries(map, LAMBDA e : e.ties) % 2 = 0
             /\ SumEntries(map, LAMBDA e : e.pointsFor)
                  = SumEntries(map, LAMBDA e : e.pointsAgainst)
     /\ (\E u \in DOMAIN stand.map \cap DOMAIN stand'.map :
           stand'.map[u].byes # stand.map[u].byes)
          => /\ DOMAIN stand'.map = DOMAIN stand.map
             /\ \A v \in DOMAIN stand.map :
                  [stand'.map[v] EXCEPT !.byes = 0] = [stand.map[v] EXCEPT !.byes = 0]]_vars

\* standings after three rounds of three members: a matchup won, a matchup tied,
\* a bye for every member, and points scored
C37_Witness ==
  /\ stand.out.n > 0
  /\ \E u \in DOMAIN stand.out.map : stand.out.map[u].wins = 1
  /\ \E u \in DOMAIN stand.out.map : stand.out.map[u].ties = 1
  /\ \A u \in DOMAIN stand.out.map : stand.out.map[u].byes = 1
  /\ \E u \in DOMAIN stand.out.map : stand.out.map[u].pointsFor # 0


\* ------------------------------------------------- joins after completion
\* request r has its league looked up by join code in this step, and the league of
\* its code is COMPLETED
JoinsCompleted(r) ==
  /\ req[r].kind = "join" /\ req[r].pc = "getLeagueByJoinCode"
  /\ req'[r] # req[r]
  /\ \E l \in leagues : l.join_code = req[r].joinCode /\ l.status = "COMPLETED"

\* C38: a join request that finds the league of its code COMPLETED is answered 409
\* 'League is already completed', and no step adds a portfolio to a league that is
\* COMPLETED.
C38_NoJoinAfterCompletion ==
  [][/\ \A r \in Slots :
          JoinsCompleted(r)
            => /\ req'[r].pc = "idle"
               /\ last'.rid = req[r].rid
               /\ last'.status = 409
               /\ last'.err = "League is already completed"
     /\ \A l \in leagues :
          l.status = "COMPLETED"
            => membersOf(portfolios', l.id) = membersOf(portfolios, l.id)]_vars


\* ------------------------------------------------------- the owner's right
\* Completion requests of the owner (user 1), of the other member (user 2) and of
\* a user outside the league (user 3), for the session's league or for the league
\* id of the body: the id of the league or an id that names none.
NextOwner ==
  \/ \E h \in Handlers : FinStart(h, AllUsers, {NoValue, 1, 2}, FinCalls)
  \/ \E h \in Handlers, c \in Conns : FinGetLeague(h, c)
  \/ \E h \in Handlers, c \in Conns : FinGetMembers(h, c)
  \/ \E h \in Handlers : FinStandings(h)
  \/ StandNext
  \/ \E c \in Conns : ScoreValue(c)
  \/ ScoreReturn
  \/ StandFold
  \/ StandReturn
  \/ \E h \in Handlers, c \in Conns : FinFinalize(h, c)
  \/ Pass(FinTimes(intervalMs(FinLeague, sched.FAST_SCHEDULE)))

SpecOwner == InitComplete /\ [][NextOwner]_vars

\* handler h serves a request of a user who does not own the league of the request
NotOwner(h) ==
  /\ fin[h].pc # "idle"
  /\ \E l \in leagues : l.id = fin[h].leagueId /\ l.owner_user_id # fin[h].user

\* C39: a completion request of a user who does not own the league it names is
\* answered 403 when the league's row has been read, and no step of it changes the
\* leagues; a league becomes COMPLETED only in the finalizing step of a request of
\* its owner.
C39_OnlyOwnerFinalizes ==
  [][/\ \A h \in Handlers :
          (NotOwner(h) /\ fin'[h] # fin[h])
            => /\ fin[h].pc = "getLeague"
               /\ fin'[h].pc = "idle"
               /\ fin'[h].res.status = 403
               /\ fin'[h].res.error = "Only the league owner can complete this league"
               /\ leagues' = leagues
     /\ \A l \in leagues, m \in leagues' :
          (m.id = l.id
           /\ <<m.status, m.winner_user_id, m.completed_at>>
                # <<l.status, l.winner_user_id, l.completed_at>>)
            => \E h \in Handlers :
                 Finalizes(h, l.id) /\ fin[h].user = l.owner_user_id]_vars

\* the league has been completed by its owner after a request of another user for
\* it was answered 403
C39_Witness ==
  /\ \E l \in leagues : l.id = 1 /\ l.status = "COMPLETED"
  /\ \E h \in Handlers :
       /\ fin[h].pc = "idle" /\ fin[h].res.status = 403
  /\ \E h \in Handlers :
       /\ fin[h].pc = "idle" /\ fin[h].res.status = 200


\* ------------------------------------------------------- the two sides
\* the four values of a scored matchup with the sides exchanged
Exchanged(out) ==
  [x \in ScoreValues |->
     CASE x = "homeStart" -> out.away.startValue
       [] x = "homeEnd" -> out.away.endValue
       [] x = "awayStart" -> out.home.startValue
       [] x = "awayEnd" -> out.home.endValue]

\* C40: the result of a matchup and the result of the same values with home and
\* away exchanged name the same winner, HOME_WIN in one being AWAY_WIN in the other
\* and TIE being TIE, and give each side the same profit.
C40_SidesSymmetric ==
  score.out.n > 0 =>
    LET out == score.out
        other == matchupResult(Exchanged(out), out.scale, out.away.userId,
                               out.home.userId)
    IN /\ other.winnerUserId = out.winnerUserId
       /\ other.homeProfit = out.away.profit
       /\ other.awayProfit = out.home.profit
       /\ out.result = "HOME_WIN" <=> other.result = "AWAY_WIN"
       /\ out.result = "AWAY_WIN" <=> other.result = "HOME_WIN"
       /\ out.result = "TIE" <=> other.result = "TIE"

\* the away side has won on the end values, the profits being within EPS of each
\* other
C40_Witness ==
  /\ score.out.n > 0
  /\ score.out.result = "AWAY_WIN"
  /\ score.out.winnerUserId = score.out.away.userId
  /\ ~Beyond(score.out.home.profit - score.out.away.profit, score.out)
  /\ score.out.home.profit # score.out.away.profit

====
